---- MODULE Spec2Model ----
(***************************************************************************)
(* SQLJoinAnalyzer (src/lib/sql_join_analyzer.py): extraction of table     *)
(* join relationships from a parsed SQL statement.                         *)
(*                                                                         *)
(* The SQL parser is an external library; a statement is modelled by the   *)
(* syntax tree the parser hands to the analyzer (or by the fact that the   *)
(* parser raises).  Column names and edge labels are Python strings that   *)
(* the code inspects (suffix tests, substring tests, concatenation), so    *)
(* they are sequences of one-character strings.  Table names are only      *)
(* compared and tested for emptiness, so they are plain strings.           *)
(***************************************************************************)
EXTENDS Integers, Sequences, FiniteSets, TLC

VARIABLES relationships, tables, alias_to_table, graph, result, call, ncalls

vars == <<relationships, tables, alias_to_table, graph, result, call, ncalls>>

-----------------------------------------------------------------------------
(* Bounds of the model.                                                     *)

\* number of public calls made on one analyzer instance
MaxCalls == 2
\* number of statements in one analyze_multiple_queries batch
MaxBatch == 2
\* the number of _add_relationship calls made directly on the store
MaxAdds == 3

-----------------------------------------------------------------------------
(* Python values.                                                           *)

\* Python's None in a table field (no SQL identifier is spelled like this)
None == "<None>"

\* truth value of a table name: None and '' are false
Truthy(t) == t # None /\ t # ""

\* truth value of a str given as a character sequence
TruthyStr(s) == Len(s) > 0

\* str.endswith
EndsWith(s, suf) ==
    /\ Len(suf) <= Len(s)
    /\ SubSeq(s, Len(s) - Len(suf) + 1, Len(s)) = suf

\* str.startswith
StartsWith(s, pre) ==
    /\ Len(pre) <= Len(s)
    /\ SubSeq(s, 1, Len(pre)) = pre

\* `sub in s` for two str
Contains(s, sub) ==
    \E i \in 0..(Len(s) - Len(sub)) : SubSeq(s, i + 1, i + Len(sub)) = sub

\* column names used by the statements of the model
c_x == <<"x">>
c_y == <<"y">>
c_z == <<"z">>
c_w == <<"w">>
c_a == <<"a">>
c_k == <<"k">>
c_id == <<"i", "d">>
c_a_id == <<"a", "_", "i", "d">>
c_user_id == <<"u", "s", "e", "r", "_", "i", "d">>
c_dept_id == <<"d", "e", "p", "t", "_", "i", "d">>
c_status == <<"s", "t", "a", "t", "u", "s">>
c_category_id == <<"c", "a", "t", "e", "g", "o", "r", "y", "_", "i", "d">>
c_active == <<"a", "c", "t", "i", "v", "e">>
c_published == <<"p", "u", "b", "l", "i", "s", "h", "e", "d">>
c_c_id == <<"c", "_", "i", "d">>
c_NATURAL == <<"N", "A", "T", "U", "R", "A", "L">>

-----------------------------------------------------------------------------
(* The syntax tree.  Every node has the same fields: kind (the node        *)
(* class), name (Table: the table's real name; '' for every node whose     *)
(* `this` is not an identifier, as Expression.name gives), alias, table    *)
(* (Column: its qualifier, '' when unqualified), col (Column: its name),   *)
(* jkind (Join: args['kind']), using (Join: the names of args['using']),   *)
(* kids (the child expressions in the order of the node's args).           *)

Node(kind, name, alias, table, col, jkind, using, kids) ==
    [kind |-> kind, name |-> name, alias |-> alias, table |-> table,
     col |-> col, jkind |-> jkind, using |-> using, kids |-> kids]

Table(name, alias) == Node("Table", name, alias, "", <<>>, "", <<>>, <<>>)
Column(table, col) == Node("Column", "", "", table, col, "", <<>>, <<>>)
Literal == Node("Literal", "", "", "", <<>>, "", <<>>, <<>>)
EQ(l, r) == Node("EQ", "", "", "", <<>>, "", <<>>, <<l, r>>)
GT(l, r) == Node("GT", "", "", "", <<>>, "", <<>>, <<l, r>>)
And(l, r) == Node("And", "", "", "", <<>>, "", <<>>, <<l, r>>)
Or(l, r) == Node("Or", "", "", "", <<>>, "", <<>>, <<l, r>>)
Not(e) == Node("Not", "", "", "", <<>>, "", <<>>, <<e>>)
Paren(e) == Node("Paren", "", "", "", <<>>, "", <<>>, <<e>>)
In(e, q) == Node("In", "", "", "", <<>>, "", <<>>, <<e, q>>)
Subquery(sel, alias) == Node("Subquery", "", alias, "", <<>>, "", <<>>, <<sel>>)
From(t) == Node("From", "", "", "", <<>>, "", <<>>, <<t>>)
Where(e) == Node("Where", "", "", "", <<>>, "", <<>>, <<e>>)
\* JOIN t ON e: args = {this, on}
JoinOn(t, e) == Node("Join", "", "", "", <<>>, "", <<>>, <<t, e>>)
\* JOIN t USING (cols): args = {this, using}
JoinUsing(t, cols) == Node("Join", "", "", "", <<>>, "", cols, <<t>>)
\* a join whose args carry kind = k and neither on nor using
JoinKind(t, k) == Node("Join", "", "", "", <<>>, k, <<>>, <<t>>)
\* the join the parser makes of ", t" in a FROM list: args = {this}
JoinComma(t) == Node("Join", "", "", "", <<>>, "", <<>>, <<t>>)
\* SELECT exprs FROM f joins WHERE w; args in the order the parser sets them
Select(exprs, f, joins, w) ==
    Node("Select", "", "", "", <<>>, "", <<>>, exprs \o f \o joins \o w)

\* a node together with its position in the tree: the position stands for
\* the identity id(node) of the Python object
At(p, n) == [p |-> p, n |-> n]

RECURSIVE FlatKids(_, _)
FlatKids(level, i) ==
    IF i > Len(level) THEN <<>>
    ELSE [j \in 1..Len(level[i].n.kids) |->
              At(level[i].p \o <<j>>, level[i].n.kids[j])]
         \o FlatKids(level, i + 1)

\* Expression.bfs: the nodes of the subtree, the root first, level by level
RECURSIVE Bfs(_)
Bfs(level) ==
    IF level = <<>> THEN <<>> ELSE level \o Bfs(FlatKids(level, 1))

\* Expression.find_all(kind) (breadth first, which is the default)
FindAll(pn, kinds) == SelectSeq(Bfs(<<pn>>), LAMBDA x : x.n.kind \in kinds)


\* Expression.find(kind): the first node of find_all, <<>> when there is none
Find(pn, kinds) ==
    LET all == FindAll(pn, kinds) IN IF all = <<>> THEN <<>> ELSE <<all[1]>>

\* node.joins / node.args['joins'] of a Select: the joins it holds itself
JoinsOf(n) == SelectSeq(n.kids, LAMBDA k : k.kind = "Join")

\* 'on' in join.args
HasOn(join) == Len(join.kids) = 2

-----------------------------------------------------------------------------
(* Alias resolution.                                                        *)

\* a dict with no key
EmptyDict == [k \in {} |-> ""]

\* d[k] = v
Put(d, k, v) == [x \in (DOMAIN d) \cup {k} |-> IF x = k THEN v ELSE d[x]]

\* _extract_alias_from_table_node without the entry for a table with no alias
_extract_alias_from_table_node_AliasedOnly(d, t) ==
    IF t.kind = "Table" /\ t.name # "" /\ t.alias # ""
    THEN Put(d, t.alias, t.name)
    ELSE d

\* _extract_alias_from_table_node that never replaces an entry of the dict
_extract_alias_from_table_node_KeepsFirst(d, t) ==
    IF t.kind = "Table" /\ t.name # "" THEN
        LET k == IF t.alias # "" THEN t.alias ELSE t.name
        IN  IF k \in DOMAIN d THEN d ELSE Put(d, k, t.name)
    ELSE d

_extract_alias_from_table_node(d, t) ==
    IF t.kind = "Table" THEN
        IF t.name # "" /\ t.alias # "" THEN Put(d, t.alias, t.name)
        ELSE IF t.name # "" THEN Put(d, t.name, t.name)
        ELSE d
    ELSE IF t.kind = "Alias" THEN
        IF /\ Len(t.kids) > 0
           /\ t.kids[1].kind = "Table"
           /\ t.alias # ""
           /\ t.kids[1].name # ""
        THEN Put(d, t.alias, t.kids[1].name)
        ELSE d
    ELSE d

\* the loop over the joins of _extract_table_aliases
RECURSIVE AliasesOfJoins(_, _, _)
AliasesOfJoins(d, joins, i) ==
    IF i > Len(joins) THEN d
    ELSE AliasesOfJoins(
             _extract_alias_from_table_node(d, joins[i].n.kids[1]), joins, i + 1)

\* _extract_table_aliases(node, visited) from the dict d; gives the dict and
\* the visited set after the call
RECURSIVE _extract_table_aliases(_, _, _)
RECURSIVE AliasesOfSubqueries(_, _, _, _)
_extract_table_aliases(d, pn, visited) ==
    IF pn.p \in visited THEN [d |-> d, visited |-> visited]
    ELSE
        LET from_clause == Find(pn, {"From"})
            d1 == IF from_clause # <<>>
                  THEN _extract_alias_from_table_node(d, from_clause[1].n.kids[1])
                  ELSE d
            d2 == AliasesOfJoins(d1, FindAll(pn, {"Join"}), 1)
        IN  AliasesOfSubqueries(d2, FindAll(pn, {"Subquery"}), 1,
                                visited \cup {pn.p})

AliasesOfSubqueries(d, subqueries, i, visited) ==
    IF i > Len(subqueries) THEN [d |-> d, visited |-> visited]
    ELSE
        LET this == At(subqueries[i].p \o <<1>>, subqueries[i].n.kids[1])
            r == IF this.p \in visited
                 THEN [d |-> d, visited |-> visited]
                 ELSE _extract_table_aliases(d, this, visited)
        IN  AliasesOfSubqueries(r.d, subqueries, i + 1, r.visited)

_get_table_name(d, node) ==
    LET table_name == node.name IN
    IF table_name # "" /\ table_name \in DOMAIN d THEN d[table_name]
    ELSE table_name

\* _get_column_table without the lookup in the alias dict
_get_column_table_Qualifier(d, column_node) ==
    IF column_node.table # "" THEN column_node.table ELSE None

_get_column_table(d, column_node) ==
    LET table_name == IF column_node.table # "" THEN column_node.table ELSE None IN
    IF Truthy(table_name) /\ table_name \in DOMAIN d THEN d[table_name]
    ELSE table_name

-----------------------------------------------------------------------------
(* Extraction.  The walk over a statement changes the instance only by     *)
(* calling _add_relationship, and reads only the alias dict, which is      *)
(* complete before the walk starts; so the walk is modelled by the         *)
(* sequence of _add_relationship calls it makes, in order and with every   *)
(* repetition.                                                              *)

AddCall(t1, c1, t2, c2) == [table1 |-> t1, col1 |-> c1, table2 |-> t2, col2 |-> c2]

\* the EQ branch without the test that the two tables differ
EqualityCalls_SameTableToo(d, eq) ==
    LET left == eq.kids[1]
        right == eq.kids[2]
    IN  IF left.kind = "Column" /\ right.kind = "Column" THEN
            LET left_table == _get_column_table(d, left)
                right_table == _get_column_table(d, right)
            IN  IF Truthy(left_table) /\ Truthy(right_table)
                THEN <<AddCall(left_table, left.col, right_table, right.col)>>
                ELSE <<>>
        ELSE <<>>

\* the EQ branch shared by the ON walk and the WHERE scan
EqualityCalls(d, eq) ==
    LET left == eq.kids[1]
        right == eq.kids[2]
    IN  IF left.kind = "Column" /\ right.kind = "Column" THEN
            LET left_table == _get_column_table(d, left)
                right_table == _get_column_table(d, right)
            IN  IF /\ Truthy(left_table)
                   /\ Truthy(right_table)
                   /\ left_table # right_table
                THEN <<AddCall(left_table, left.col, right_table, right.col)>>
                ELSE <<>>
        ELSE <<>>

RECURSIVE _extract_equality_conditions(_, _)
RECURSIVE EqualitiesOfArgs(_, _, _)
\* the ON walk with an AND branch that descends into its left side only
_extract_equality_conditions_LeftOnly(d, node) ==
    IF node.kind = "EQ" THEN EqualityCalls(d, node)
    ELSE IF node.kind = "And" THEN _extract_equality_conditions(d, node.kids[1])
    ELSE IF node.kind \in {"Or", "Not"} THEN <<>>
    ELSE EqualitiesOfArgs(d, node.kids, 1)

_extract_equality_conditions(d, node) ==
    IF node.kind = "EQ" THEN EqualityCalls(d, node)
    ELSE IF node.kind = "And" THEN
        _extract_equality_conditions(d, node.kids[1])
        \o _extract_equality_conditions(d, node.kids[2])
    ELSE IF node.kind \in {"Or", "Not"} THEN <<>>
    ELSE EqualitiesOfArgs(d, node.kids, 1)

EqualitiesOfArgs(d, kids, i) ==
    IF i > Len(kids) THEN <<>>
    ELSE _extract_equality_conditions(d, kids[i]) \o EqualitiesOfArgs(d, kids, i + 1)

_process_join_condition(d, condition) == _extract_equality_conditions(d, condition)

RECURSIVE _process_using_clause(_, _, _)
_process_using_clause(using_clause, right_table, left_table) ==
    IF using_clause = <<>> THEN <<>>
    ELSE
        LET column_name == Head(using_clause) IN
        (IF TruthyStr(column_name)
         THEN <<AddCall(IF Truthy(left_table) THEN left_table ELSE "LEFT_TABLE",
                        column_name, right_table, column_name)>>
         ELSE <<>>)
        \o _process_using_clause(Tail(using_clause), right_table, left_table)

\* the NATURAL placeholder with the USING placeholder as its left table
_process_natural_join_LeftPlaceholder(right_table) ==
    <<AddCall("LEFT_TABLE", c_NATURAL, right_table, c_NATURAL)>>

_process_natural_join(right_table) ==
    <<AddCall(None, c_NATURAL, right_table, c_NATURAL)>>

_process_join(d, join_node, left_table) ==
    IF Len(join_node.kids) = 0 THEN <<>>
    ELSE
        LET right_table == _get_table_name(d, join_node.kids[1]) IN
        IF HasOn(join_node) THEN _process_join_condition(d, join_node.kids[2])
        ELSE IF join_node.using # <<>>
        THEN _process_using_clause(join_node.using, right_table, left_table)
        ELSE IF join_node.jkind = "NATURAL" THEN _process_natural_join(right_table)
        ELSE <<>>

\* a loop `for join in joins: self._process_join(join, left_table)`
RECURSIVE ProcessJoins(_, _, _, _)
ProcessJoins(d, joins, i, left_table) ==
    IF i > Len(joins) THEN <<>>
    ELSE _process_join(d, joins[i], left_table)
         \o ProcessJoins(d, joins, i + 1, left_table)

\* _extract_joins(node, visited); gives the calls made and the visited set
RECURSIVE _extract_joins(_, _, _)
RECURSIVE JoinsOfSubqueries(_, _, _, _)
\* _extract_joins that processes node.joins only: no search, no recursion
_extract_joins_OwnJoinsOnly(d, pn, visited) ==
    LET from_clause == Find(pn, {"From"})
        left_table == IF from_clause # <<>>
                      THEN _get_table_name(d, from_clause[1].n.kids[1])
                      ELSE None
    IN  [calls |-> ProcessJoins(d, JoinsOf(pn.n), 1, left_table),
         visited |-> visited \cup {pn.p}]

_extract_joins(d, pn, visited) ==
    IF pn.p \in visited THEN [calls |-> <<>>, visited |-> visited]
    ELSE
        LET from_clause == Find(pn, {"From"})
            left_table == IF from_clause # <<>>
                          THEN _get_table_name(d, from_clause[1].n.kids[1])
                          ELSE None
            held == ProcessJoins(d, JoinsOf(pn.n), 1, left_table)
            found == FindAll(pn, {"Join"})
            searched == ProcessJoins(d, [i \in 1..Len(found) |-> found[i].n], 1,
                                     left_table)
            sub == JoinsOfSubqueries(d, FindAll(pn, {"Subquery"}), 1,
                                     visited \cup {pn.p})
        IN  [calls |-> held \o searched \o sub.calls, visited |-> sub.visited]

JoinsOfSubqueries(d, subqueries, i, visited) ==
    IF i > Len(subqueries) THEN [calls |-> <<>>, visited |-> visited]
    ELSE
        LET this == At(subqueries[i].p \o <<1>>, subqueries[i].n.kids[1])
            r == IF this.p \in visited
                 THEN [calls |-> <<>>, visited |-> visited]
                 ELSE _extract_joins(d, this, visited)
            rest == JoinsOfSubqueries(d, subqueries, i + 1, r.visited)
        IN  [calls |-> r.calls \o rest.calls, visited |-> rest.visited]

RECURSIVE WhereEqualities(_, _, _)
WhereEqualities(d, equalities, i) ==
    IF i > Len(equalities) THEN <<>>
    ELSE EqualityCalls(d, equalities[i].n) \o WhereEqualities(d, equalities, i + 1)

\* the WHERE scan that looks at the predicate itself only, not inside an AND
_process_where_conditions_TopLevelOnly(d, where_clause) ==
    IF where_clause.n.kids[1].kind = "EQ"
    THEN EqualityCalls(d, where_clause.n.kids[1])
    ELSE <<>>

\* the WHERE scan done as the ON walk is: by the boolean structure
_process_where_conditions_Structural(d, where_clause) ==
    _extract_equality_conditions(d, where_clause.n.kids[1])

_process_where_conditions(d, where_clause) ==
    WhereEqualities(d, FindAll(where_clause, {"EQ"}), 1)

\* the names _extract_from_where_relationships collects from the joins
RECURSIVE JoinedTables(_, _, _)
JoinedTables(d, joins, i) ==
    IF i > Len(joins) THEN <<>>
    ELSE
        LET table_name == _get_table_name(d, joins[i].kids[1]) IN
        (IF Truthy(table_name) THEN <<table_name>> ELSE <<>>)
        \o JoinedTables(d, joins, i + 1)

\* _extract_from_where_relationships without the test for a join without ON
_extract_from_where_relationships_NoOnTest(d, pn) ==
    LET joins == JoinsOf(pn.n)
        from_clause == Find(pn, {"From"})
        main_table == IF from_clause # <<>>
                      THEN _get_table_name(d, from_clause[1].n.kids[1])
                      ELSE None
        from_tables == (IF Truthy(main_table) THEN <<main_table>> ELSE <<>>)
                       \o JoinedTables(d, joins, 1)
        where_clause == Find(pn, {"Where"})
    IN  IF joins # <<>> /\ Len(from_tables) > 1 /\ where_clause # <<>>
        THEN _process_where_conditions(d, where_clause[1])
        ELSE <<>>

_extract_from_where_relationships(d, pn) ==
    LET joins == JoinsOf(pn.n) IN
    IF joins = <<>> THEN <<>>
    ELSE
        LET from_clause == Find(pn, {"From"})
            main_table == IF from_clause # <<>>
                          THEN _get_table_name(d, from_clause[1].n.kids[1])
                          ELSE None
            from_tables == (IF Truthy(main_table) THEN <<main_table>> ELSE <<>>)
                           \o JoinedTables(d, joins, 1)
            comma_separated_joins == SelectSeq(joins, LAMBDA j : ~HasOn(j))
            where_clause == Find(pn, {"Where"})
        IN  IF /\ Len(from_tables) > 1
               /\ comma_separated_joins # <<>>
               /\ where_clause # <<>>
            THEN _process_where_conditions(d, where_clause[1])
            ELSE <<>>

-----------------------------------------------------------------------------
(* The relationship store.                                                  *)

\* _infer_column_type with the test of the prefix "is_" before the suffix tests
_infer_column_type_PrefixFirst(column_name) ==
    IF ~TruthyStr(column_name) \/ column_name = c_NATURAL THEN "UNKNOWN"
    ELSE IF StartsWith(column_name, <<"i", "s", "_">>) THEN "BOOLEAN"
    ELSE IF column_name = c_id THEN "INT PRIMARY KEY"
    ELSE IF EndsWith(column_name, <<"_", "i", "d">>) THEN "INT FOREIGN KEY"
    ELSE IF \/ EndsWith(column_name, <<"_", "a", "t">>)
            \/ EndsWith(column_name, <<"_", "t", "i", "m", "e">>) THEN "DATETIME"
    ELSE IF EndsWith(column_name, <<"_", "d", "a", "t", "e">>) THEN "DATE"
    ELSE IF \/ EndsWith(column_name, <<"_", "c", "o", "u", "n", "t">>)
            \/ EndsWith(column_name, <<"_", "n", "u", "m">>) THEN "INT"
    ELSE IF EndsWith(column_name, <<"_", "f", "l", "a", "g">>) THEN "BOOLEAN"
    ELSE "VARCHAR(255)"

_infer_column_type(column_name) ==
    IF ~TruthyStr(column_name) \/ column_name = c_NATURAL THEN "UNKNOWN"
    ELSE IF EndsWith(column_name, <<"_", "i", "d">>) \/ column_name = c_id THEN
        IF column_name = c_id THEN "INT PRIMARY KEY" ELSE "INT FOREIGN KEY"
    ELSE IF \/ EndsWith(column_name, <<"_", "a", "t">>)
            \/ EndsWith(column_name, <<"_", "t", "i", "m", "e">>) THEN "DATETIME"
    ELSE IF EndsWith(column_name, <<"_", "d", "a", "t", "e">>) THEN "DATE"
    ELSE IF \/ EndsWith(column_name, <<"_", "c", "o", "u", "n", "t">>)
            \/ EndsWith(column_name, <<"_", "n", "u", "m">>) THEN "INT"
    ELSE IF \/ EndsWith(column_name, <<"_", "f", "l", "a", "g">>)
            \/ StartsWith(column_name, <<"i", "s", "_">>) THEN "BOOLEAN"
    ELSE "VARCHAR(255)"

\* the dict _add_relationship builds
Relationship(table1, col1, table2, col2) ==
    [table1 |-> table1, column1 |-> col1,
     column_definition1 |-> _infer_column_type(col1),
     table2 |-> table2, column2 |-> col2,
     column_definition2 |-> _infer_column_type(col2)]

\* `x in list`
InList(x, list) == \E i \in 1..Len(list) : list[i] = x

\* f"{col1} -> {col2}"
EdgeLabel(col1, col2) == col1 \o <<" ", "-", ">", " ">> \o col2

\* nx.DiGraph(): its nodes, and the 'columns' attribute of each edge
EmptyGraph == [nodes |-> {}, edges |-> [e \in {} |-> <<>>]]

\* the graph part of _add_relationship
AddEdge(g, table1, col1, table2, col2) ==
    LET e == <<table1, table2>>
        new_relationship == EdgeLabel(col1, col2)
    IN  IF e \in DOMAIN g.edges THEN
            LET existing_columns == g.edges[e]
                updated_columns ==
                    IF /\ TruthyStr(existing_columns)
                       /\ ~Contains(existing_columns, new_relationship)
                    THEN existing_columns \o <<";", " ">> \o new_relationship
                    ELSE new_relationship
            IN  [g EXCEPT !.edges = Put(g.edges, e, updated_columns)]
        ELSE [nodes |-> g.nodes \cup {table1, table2},
              edges |-> Put(g.edges, e, new_relationship)]

\* the instance: self.relationships, self.tables, self.graph,
\* self.alias_to_table
Instance(r, t, g, d) ==
    [relationships |-> r, tables |-> t, graph |-> g, alias_to_table |-> d]

\* _add_relationship without the test `relationship not in self.relationships`
_add_relationship_AlwaysAppends(self, table1, col1, table2, col2) ==
    LET rels == Append(self.relationships,
                       Relationship(table1, col1, table2, col2))
    IN  IF Truthy(table1) /\ Truthy(table2)
        THEN Instance(rels, self.tables \cup {table1, table2},
                      AddEdge(self.graph, table1, col1, table2, col2),
                      self.alias_to_table)
        ELSE Instance(rels, self.tables, self.graph, self.alias_to_table)

\* _add_relationship without the test of the two table names
_add_relationship_Unguarded(self, table1, col1, table2, col2) ==
    LET relationship == Relationship(table1, col1, table2, col2)
        rels == IF ~InList(relationship, self.relationships)
                THEN Append(self.relationships, relationship)
                ELSE self.relationships
    IN  Instance(rels, self.tables \cup {table1, table2},
                 AddEdge(self.graph, table1, col1, table2, col2),
                 self.alias_to_table)

_add_relationship(self, table1, col1, table2, col2) ==
    LET relationship == Relationship(table1, col1, table2, col2)
        rels == IF ~InList(relationship, self.relationships)
                THEN Append(self.relationships, relationship)
                ELSE self.relationships
    IN  IF Truthy(table1) /\ Truthy(table2)
        THEN Instance(rels, self.tables \cup {table1, table2},
                      AddEdge(self.graph, table1, col1, table2, col2),
                      self.alias_to_table)
        ELSE Instance(rels, self.tables, self.graph, self.alias_to_table)

\* the instance after the calls the walk makes, in order
RECURSIVE AddAll(_, _, _)
AddAll(self, calls, i) ==
    IF i > Len(calls) THEN self
    ELSE AddAll(_add_relationship(self, calls[i].table1, calls[i].col1,
                                  calls[i].table2, calls[i].col2),
                calls, i + 1)

-----------------------------------------------------------------------------
(* The statements given to the analyzer: what sqlglot.parse_one makes of    *)
(* each (SELECT lists hold no subquery here and are left out).              *)

Stmt(tree) == [parses |-> TRUE, tree |-> tree]

\* SELECT * FROM      -- parse_one raises
StUnparseable == [parses |-> FALSE, tree |-> Literal]

\* FROM a JOIN b ON a.x = b.y
StOn1 ==
    Stmt(Select(<<>>, <<From(Table("a", ""))>>,
        <<JoinOn(Table("b", ""), EQ(Column("a", c_x), Column("b", c_y)))>>,
        <<>>))

\* FROM a JOIN b ON a.x = b.y AND a.z = b.w
StOnAnd2 ==
    Stmt(Select(<<>>, <<From(Table("a", ""))>>,
        <<JoinOn(Table("b", ""),
            And(EQ(Column("a", c_x), Column("b", c_y)),
                EQ(Column("a", c_z), Column("b", c_w))))>>,
        <<>>))

\* FROM a JOIN b ON a.k = b.k AND a.x = b.y AND a.z = b.w
StOnAnd3 ==
    Stmt(Select(<<>>, <<From(Table("a", ""))>>,
        <<JoinOn(Table("b", ""),
            And(And(EQ(Column("a", c_k), Column("b", c_k)),
                    EQ(Column("a", c_x), Column("b", c_y))),
                EQ(Column("a", c_z), Column("b", c_w))))>>,
        <<>>))

\* FROM a JOIN b ON a.z = b.w AND (a.x = b.y AND a.k = b.k)
StOnAndParen ==
    Stmt(Select(<<>>, <<From(Table("a", ""))>>,
        <<JoinOn(Table("b", ""),
            And(EQ(Column("a", c_z), Column("b", c_w)),
                Paren(And(EQ(Column("a", c_x), Column("b", c_y)),
                          EQ(Column("a", c_k), Column("b", c_k))))))>>,
        <<>>))

\* FROM a JOIN b ON a.x = b.y OR a.z = b.w
StOnOr ==
    Stmt(Select(<<>>, <<From(Table("a", ""))>>,
        <<JoinOn(Table("b", ""),
            Or(EQ(Column("a", c_x), Column("b", c_y)),
               EQ(Column("a", c_z), Column("b", c_w))))>>,
        <<>>))

\* FROM a JOIN b ON a.x = b.y AND NOT (a.z = b.w)
StOnAndNot ==
    Stmt(Select(<<>>, <<From(Table("a", ""))>>,
        <<JoinOn(Table("b", ""),
            And(EQ(Column("a", c_x), Column("b", c_y)),
                Not(Paren(EQ(Column("a", c_z), Column("b", c_w))))))>>,
        <<>>))

\* FROM t JOIN t t2 ON t.a = t2.a
StSelfJoin ==
    Stmt(Select(<<>>, <<From(Table("t", ""))>>,
        <<JoinOn(Table("t", "t2"), EQ(Column("t", c_a), Column("t2", c_a)))>>,
        <<>>))

\* FROM a JOIN b ON x = b.y AND a.z = 'v' AND a.x > b.y
StOnNoPair ==
    Stmt(Select(<<>>, <<From(Table("a", ""))>>,
        <<JoinOn(Table("b", ""),
            And(And(EQ(Column("", c_x), Column("b", c_y)),
                    EQ(Column("a", c_z), Literal)),
                GT(Column("a", c_x), Column("b", c_y))))>>,
        <<>>))

\* FROM e JOIN d USING (dept_id)
StUsing1 ==
    Stmt(Select(<<>>, <<From(Table("e", ""))>>,
        <<JoinUsing(Table("d", ""), <<c_dept_id>>)>>, <<>>))

\* FROM a JOIN b USING (x, y)
StUsing2 ==
    Stmt(Select(<<>>, <<From(Table("a", ""))>>,
        <<JoinUsing(Table("b", ""), <<c_x, c_y>>)>>, <<>>))

\* FROM a JOIN (SELECT * FROM c JOIN d USING (k)) s ON a.x = s.y
StUsingInSubquery ==
    Stmt(Select(<<>>, <<From(Table("a", ""))>>,
        <<JoinOn(
            Subquery(Select(<<>>, <<From(Table("c", ""))>>,
                            <<JoinUsing(Table("d", ""), <<c_k>>)>>, <<>>), "s"),
            EQ(Column("a", c_x), Column("s", c_y)))>>,
        <<>>))

\* FROM (SELECT * FROM c) s JOIN d USING (k)
StUsingNoLeft ==
    Stmt(Select(<<>>,
        <<From(Subquery(Select(<<>>, <<From(Table("c", ""))>>, <<>>, <<>>), "s"))>>,
        <<JoinUsing(Table("d", ""), <<c_k>>)>>, <<>>))

\* FROM e NATURAL JOIN d   -- as a join whose args['kind'] is "NATURAL"
StNatural ==
    Stmt(Select(<<>>, <<From(Table("e", ""))>>,
        <<JoinKind(Table("d", ""), "NATURAL")>>, <<>>))

\* FROM a, b WHERE a.id = b.a_id AND a.status = 'x'
StComma ==
    Stmt(Select(<<>>, <<From(Table("a", ""))>>, <<JoinComma(Table("b", ""))>>,
        <<Where(And(EQ(Column("a", c_id), Column("b", c_a_id)),
                    EQ(Column("a", c_status), Literal)))>>))

\* FROM a, b WHERE a.id = b.a_id
StComma1 ==
    Stmt(Select(<<>>, <<From(Table("a", ""))>>, <<JoinComma(Table("b", ""))>>,
        <<Where(EQ(Column("a", c_id), Column("b", c_a_id)))>>))

\* FROM a, c WHERE a.k IN
\*     (SELECT b.k FROM a JOIN b ON a.x = b.y OR a.z = b.w)
StWhereSubqueryOr ==
    Stmt(Select(<<>>, <<From(Table("a", ""))>>, <<JoinComma(Table("c", ""))>>,
        <<Where(In(Column("a", c_k),
            Subquery(Select(<<Column("b", c_k)>>, <<From(Table("a", ""))>>,
                <<JoinOn(Table("b", ""),
                    Or(EQ(Column("a", c_x), Column("b", c_y)),
                       EQ(Column("a", c_z), Column("b", c_w))))>>,
                <<>>), "")))>>))

\* FROM users u JOIN posts p ON u.id = p.user_id
StAlias ==
    Stmt(Select(<<>>, <<From(Table("users", "u"))>>,
        <<JoinOn(Table("posts", "p"),
                 EQ(Column("u", c_id), Column("p", c_user_id)))>>,
        <<>>))

\* FROM users WHERE id = 1
StNoJoin ==
    Stmt(Select(<<>>, <<From(Table("users", ""))>>, <<>>,
        <<Where(EQ(Column("", c_id), Literal))>>))

\* FROM users u LEFT JOIN
\*     (SELECT ... FROM posts p JOIN categories c
\*                 ON p.category_id = c.category_id
\*      WHERE c.active = 1 AND p.published = 1 GROUP BY p.user_id) post_stats
\*     ON u.user_id = post_stats.user_id
StDerived1 ==
    Stmt(Select(<<>>, <<From(Table("users", "u"))>>,
        <<JoinOn(
            Subquery(Select(<<>>, <<From(Table("posts", "p"))>>,
                <<JoinOn(Table("categories", "c"),
                    EQ(Column("p", c_category_id), Column("c", c_category_id)))>>,
                <<Where(And(EQ(Column("c", c_active), Literal),
                            EQ(Column("p", c_published), Literal)))>>),
                "post_stats"),
            EQ(Column("u", c_user_id), Column("post_stats", c_user_id)))>>,
        <<>>))

\* FROM a JOIN
\*     (SELECT * FROM b JOIN
\*         (SELECT * FROM c JOIN d ON c.k = d.k) t ON b.z = t.w) s
\*     ON a.x = s.y
StDerived2 ==
    Stmt(Select(<<>>, <<From(Table("a", ""))>>,
        <<JoinOn(
            Subquery(Select(<<>>, <<From(Table("b", ""))>>,
                <<JoinOn(
                    Subquery(Select(<<>>, <<From(Table("c", ""))>>,
                        <<JoinOn(Table("d", ""),
                                 EQ(Column("c", c_k), Column("d", c_k)))>>,
                        <<>>), "t"),
                    EQ(Column("b", c_z), Column("t", c_w)))>>,
                <<>>), "s"),
            EQ(Column("a", c_x), Column("s", c_y)))>>,
        <<>>))

\* FROM a JOIN b ON a.x = b.y WHERE a.z = b.w
StOnWhere ==
    Stmt(Select(<<>>, <<From(Table("a", ""))>>,
        <<JoinOn(Table("b", ""), EQ(Column("a", c_x), Column("b", c_y)))>>,
        <<Where(EQ(Column("a", c_z), Column("b", c_w)))>>))

\* FROM a, (SELECT * FROM c) s WHERE a.x = s.y
StCommaOneTable ==
    Stmt(Select(<<>>, <<From(Table("a", ""))>>,
        <<JoinComma(Subquery(Select(<<>>, <<From(Table("c", ""))>>, <<>>, <<>>),
                             "s"))>>,
        <<Where(EQ(Column("a", c_x), Column("s", c_y)))>>))

\* FROM a JOIN (SELECT * FROM c, d WHERE c.id = d.c_id) s ON a.x = s.y
StJoinCommaSubquery ==
    Stmt(Select(<<>>, <<From(Table("a", ""))>>,
        <<JoinOn(
            Subquery(Select(<<>>, <<From(Table("c", ""))>>,
                <<JoinComma(Table("d", ""))>>,
                <<Where(EQ(Column("c", c_id), Column("d", c_c_id)))>>), "s"),
            EQ(Column("a", c_x), Column("s", c_y)))>>,
        <<>>))

\* FROM a, b, (SELECT * FROM c, d WHERE c.id = d.c_id) s
StCommaNoWhere ==
    Stmt(Select(<<>>, <<From(Table("a", ""))>>,
        <<JoinComma(Table("b", "")),
          JoinComma(Subquery(Select(<<>>, <<From(Table("c", ""))>>,
                <<JoinComma(Table("d", ""))>>,
                <<Where(EQ(Column("c", c_id), Column("d", c_c_id)))>>), "s"))>>,
        <<>>))

\* FROM a, b WHERE a.id = b.a_id
\*     AND a.k IN (SELECT c.k FROM c, d WHERE c.id = d.c_id)
StWhereSubqueryWhere ==
    Stmt(Select(<<>>, <<From(Table("a", ""))>>, <<JoinComma(Table("b", ""))>>,
        <<Where(And(EQ(Column("a", c_id), Column("b", c_a_id)),
            In(Column("a", c_k),
               Subquery(Select(<<Column("c", c_k)>>, <<From(Table("c", ""))>>,
                    <<JoinComma(Table("d", ""))>>,
                    <<Where(EQ(Column("c", c_id), Column("d", c_c_id)))>>),
                    ""))))>>))

\* FROM a, b WHERE a.x = b.y OR a.z = b.w
StCommaOr ==
    Stmt(Select(<<>>, <<From(Table("a", ""))>>, <<JoinComma(Table("b", ""))>>,
        <<Where(Or(EQ(Column("a", c_x), Column("b", c_y)),
                   EQ(Column("a", c_z), Column("b", c_w))))>>))

\* FROM a, b WHERE NOT (a.x = b.y)
StCommaNot ==
    Stmt(Select(<<>>, <<From(Table("a", ""))>>, <<JoinComma(Table("b", ""))>>,
        <<Where(Not(Paren(EQ(Column("a", c_x), Column("b", c_y)))))>>))

\* FROM a, b WHERE a.x = b.y AND a.z = b.w
StCommaAnd2 ==
    Stmt(Select(<<>>, <<From(Table("a", ""))>>, <<JoinComma(Table("b", ""))>>,
        <<Where(And(EQ(Column("a", c_x), Column("b", c_y)),
                    EQ(Column("a", c_z), Column("b", c_w))))>>))

\* the statements of the first state machine
CoreStatements ==
    <<StUnparseable, StOn1, StOnAnd2, StOnAnd3, StOnAndParen, StOnOr, StOnAndNot,
      StSelfJoin, StOnNoPair, StUsing1, StUsing2, StUsingInSubquery, StUsingNoLeft,
      StNatural, StComma, StWhereSubqueryOr, StAlias, StNoJoin, StComma1,
      StDerived1, StDerived2>>

\* the statements of the state machine of the scoping rules
\* FROM a JOIN b ON a.x = b.y AND b.y = a.x
StOnSwapped ==
    Stmt(Select(<<>>, <<From(Table("a", ""))>>,
        <<JoinOn(Table("b", ""),
                 And(EQ(Column("a", c_x), Column("b", c_y)),
                     EQ(Column("b", c_y), Column("a", c_x))))>>,
        <<>>))

\* FROM b JOIN a ON b.y = a.x
StOnRev ==
    Stmt(Select(<<>>, <<From(Table("b", ""))>>,
        <<JoinOn(Table("a", ""), EQ(Column("b", c_y), Column("a", c_x)))>>,
        <<>>))

\* FROM users u JOIN (SELECT * FROM posts u JOIN c ON u.k = c.k) s
\*   ON u.id = s.user_id
StAliasCollision ==
    Stmt(Select(<<>>, <<From(Table("users", "u"))>>,
        <<JoinOn(
            Subquery(Select(<<>>, <<From(Table("posts", "u"))>>,
                <<JoinOn(Table("c", ""),
                    EQ(Column("u", c_k), Column("c", c_k)))>>,
                <<>>), "s"),
            EQ(Column("u", c_id), Column("s", c_user_id)))>>,
        <<>>))

\* FROM (SELECT * FROM posts u JOIN c ON u.k = c.k) s JOIN users u
\*   ON s.user_id = u.id
StAliasCollisionJoin ==
    Stmt(Select(<<>>,
        <<From(Subquery(Select(<<>>, <<From(Table("posts", "u"))>>,
                <<JoinOn(Table("c", ""),
                    EQ(Column("u", c_k), Column("c", c_k)))>>,
                <<>>), "s"))>>,
        <<JoinOn(Table("users", "u"),
                 EQ(Column("s", c_user_id), Column("u", c_id)))>>,
        <<>>))

\* FROM a u JOIN b u ON u.x = c.y
StAliasFromJoin ==
    Stmt(Select(<<>>, <<From(Table("a", "u"))>>,
        <<JoinOn(Table("b", "u"), EQ(Column("u", c_x), Column("c", c_y)))>>,
        <<>>))

\* FROM a b JOIN b c USING (x)
StShadowUsing ==
    Stmt(Select(<<>>, <<From(Table("a", "b"))>>,
        <<JoinUsing(Table("b", "c"), <<c_x>>)>>, <<>>))

\* FROM a b NATURAL JOIN b c
StShadowNatural ==
    Stmt(Select(<<>>, <<From(Table("a", "b"))>>,
        <<JoinKind(Table("b", "c"), "NATURAL")>>, <<>>))

ScopeStatements ==
    <<StOnWhere, StCommaOneTable, StJoinCommaSubquery, StCommaNoWhere,
      StWhereSubqueryWhere, StCommaOr, StCommaNot, StOnOr, StDerived1,
      StOnSwapped, StOnRev, StAliasCollision, StAliasCollisionJoin,
      StAliasFromJoin, StShadowUsing, StShadowNatural>>

Statements == CoreStatements \o ScopeStatements \o <<StCommaAnd2>>

StmtIds == 1..Len(CoreStatements)

ScopeIds == (Len(CoreStatements) + 1)..Len(Statements)

\* the first positions in list of the members of pool
FirstIn(list, pool) ==
    {i \in 1..Len(list) :
        /\ list[i] \in pool
        /\ \A j \in 1..(i - 1) : list[j] # list[i]}

\* the statements analyzed with an exception raised inside the walk
FaultStatements ==
    <<StOn1, StOnAnd2, StOnAnd3, StCommaAnd2, StUsing2, StDerived2>>

\* the statements that batches are made of
BatchPool ==
    {i \in StmtIds : Statements[i] \in {StUnparseable, StOn1, StOnAnd2, StAlias}}

Batches == UNION {[1..n -> BatchPool] : n \in 0..MaxBatch}

-----------------------------------------------------------------------------
(* The public operations.                                                   *)

\* lines 29-33 of analyze_sql on a parsed tree: the alias dict, then the calls
\* of _extract_joins and of _extract_from_where_relationships
WalkOf(tree) ==
    LET parsed == At(<<>>, tree)
        d == _extract_table_aliases(EmptyDict, parsed, {}).d
    IN  [d |-> d,
         calls |-> _extract_joins(d, parsed, {}).calls
                   \o _extract_from_where_relationships(d, parsed)]

\* WalkOf of every statement, computed once
RECURSIVE WalksUpTo(_)
WalksUpTo(n) ==
    IF n = 0 THEN <<>> ELSE Append(WalksUpTo(n - 1), WalkOf(Statements[n].tree))

Walks == WalksUpTo(Len(Statements))

\* analyze_sql without the reset of self.relationships
analyze_sql_KeepsList(self, i) ==
    IF ~Statements[i].parses THEN [self |-> self, ret |-> <<>>]
    ELSE
        LET reset == Instance(self.relationships, {}, self.graph, Walks[i].d)
            after == AddAll(reset, Walks[i].calls, 1)
        IN  [self |-> after, ret |-> after.relationships]

\* analyze_sql with the reset placed before the call of the parser
analyze_sql_ResetBeforeParse(self, i) ==
    IF ~Statements[i].parses
    THEN [self |-> Instance(<<>>, {}, self.graph, EmptyDict), ret |-> <<>>]
    ELSE
        LET reset == Instance(<<>>, {}, self.graph, Walks[i].d)
            after == AddAll(reset, Walks[i].calls, 1)
        IN  [self |-> after, ret |-> after.relationships]

\* "return self.relationships": the instance after the walk and the value
\* returned
Returning(after) == [self |-> after, ret |-> after.relationships]

\* the reset, the alias scan and the two extraction steps of analyze_sql; w is
\* the walk of the statement
Analyzed(self, w) ==
    Returning(AddAll(Instance(<<>>, {}, self.graph, w.d), w.calls, 1))

\* analyze_sql(sql_query): the instance after the call and the value returned
analyze_sql(self, i) ==
    IF ~Statements[i].parses THEN [self |-> self, ret |-> <<>>]
    ELSE Analyzed(self, Walks[i])

\* the loop over the queries, left at the first statement that fails to parse
RECURSIVE AnalyzeEach_AbortOnFailure(_, _, _, _)
AnalyzeEach_AbortOnFailure(self, queries, i, all_relationships) ==
    IF i > Len(queries) \/ ~Statements[queries[i]].parses
    THEN [self |-> self, all |-> all_relationships]
    ELSE
        LET r == analyze_sql(self, queries[i]) IN
        AnalyzeEach_AbortOnFailure(r.self, queries, i + 1,
                                   all_relationships \o r.ret)

\* the loop over the queries: the instance after it and all_relationships
RECURSIVE AnalyzeEach(_, _, _, _)
\* "all_relationships.extend(relationships)" and the rest of the loop; r is
\* what analyze_sql gave for queries[i]
Extend(r, queries, i, all_relationships) ==
    AnalyzeEach(r.self, queries, i + 1, all_relationships \o r.ret)

AnalyzeEach(self, queries, i, all_relationships) ==
    IF i > Len(queries) THEN [self |-> self, all |-> all_relationships]
    ELSE Extend(analyze_sql(self, queries[i]), queries, i, all_relationships)

RelKey(rel) == <<rel.table1, rel.column1, rel.table2, rel.column2>>

\* the "Remove duplicates" loop without the test of the key
RemoveDuplicates_KeepAll(all_relationships, i, seen, unique_relationships) ==
    all_relationships

\* the "Remove duplicates" loop keeping, for each key, the last record seen
RemoveDuplicates_KeepLast(all_relationships, i, seen, unique_relationships) ==
    LET n == Len(all_relationships)
        last(k) == \A j \in (k + 1)..n :
                       RelKey(all_relationships[j]) # RelKey(all_relationships[k])
        marked == SelectSeq([k \in 1..n |-> <<k, all_relationships[k]>>],
                            LAMBDA x : last(x[1]))
    IN  [k \in 1..Len(marked) |-> marked[k][2]]

\* a removal that treats a relationship and its mirror image as one
RemoveDuplicates_Unordered(all_relationships, i, seen, unique_relationships) ==
    LET n == Len(all_relationships)
        mirrored(r, q) == /\ r.table1 = q.table2 /\ r.column1 = q.column2
                          /\ r.table2 = q.table1 /\ r.column2 = q.column1
        first(k) == \A j \in 1..(k - 1) :
                        /\ RelKey(all_relationships[j]) # RelKey(all_relationships[k])
                        /\ ~mirrored(all_relationships[j], all_relationships[k])
        marked == SelectSeq([k \in 1..n |-> <<k, all_relationships[k]>>],
                            LAMBDA x : first(x[1]))
    IN  [k \in 1..Len(marked) |-> marked[k][2]]

\* the "Remove duplicates" loop
RECURSIVE RemoveDuplicates(_, _, _, _)
RemoveDuplicates(all_relationships, i, seen, unique_relationships) ==
    IF i > Len(all_relationships) THEN unique_relationships
    ELSE
        LET rel == all_relationships[i]
            key == RelKey(rel)
        IN  IF key \notin seen
            THEN RemoveDuplicates(all_relationships, i + 1, seen \cup {key},
                                  Append(unique_relationships, rel))
            ELSE RemoveDuplicates(all_relationships, i + 1, seen,
                                  unique_relationships)

\* "self.relationships = unique_relationships; return unique_relationships"
Unique(self, unique_relationships) ==
    [self |-> [self EXCEPT !.relationships = unique_relationships],
     ret |-> unique_relationships]

\* the "Remove duplicates" part; r is what the loop over the queries gave
Deduplicated(r) == Unique(r.self, RemoveDuplicates(r.all, 1, {}, <<>>))

analyze_multiple_queries(self, queries) ==
    Deduplicated(AnalyzeEach(self, queries, 1, <<>>))

-----------------------------------------------------------------------------
(* The state machine: one analyzer instance and the calls made on it.      *)
(* result is the value the last call returned; call names the last call    *)
(* and its argument (sqlOnly: every call so far was analyze_sql).          *)

Self == Instance(relationships, tables, graph, alias_to_table)

Returns(r) ==
    /\ relationships' = r.self.relationships
    /\ tables' = r.self.tables
    /\ graph' = r.self.graph
    /\ alias_to_table' = r.self.alias_to_table
    /\ result' = r.ret
    /\ ncalls' = ncalls + 1

Init ==
    /\ relationships = <<>>
    /\ tables = {}
    /\ graph = EmptyGraph
    /\ alias_to_table = EmptyDict
    /\ result = <<>>
    /\ call = [op |-> "init", stmt |-> 0, batch |-> <<>>, sqlOnly |-> TRUE]
    /\ ncalls = 0

AnalyzeSql(i) ==
    /\ ncalls < MaxCalls
    /\ Returns(analyze_sql(Self, i))
    /\ call' = [op |-> "analyze_sql", stmt |-> i, batch |-> <<>>,
                sqlOnly |-> call.sqlOnly]

AnalyzeMultipleQueries(queries) ==
    /\ ncalls < MaxCalls
    /\ Returns(analyze_multiple_queries(Self, queries))
    /\ call' = [op |-> "analyze_multiple_queries", stmt |-> 0, batch |-> queries,
                sqlOnly |-> FALSE]

Next ==
    \/ \E i \in StmtIds : AnalyzeSql(i)
    \/ \E queries \in Batches : AnalyzeMultipleQueries(queries)

Spec == Init /\ [][Next]_vars

-----------------------------------------------------------------------------
(* Vocabulary of the properties.                                            *)

\* the instance __init__ leaves
NewInstance == Instance(<<>>, {}, EmptyGraph, EmptyDict)

\* what analyze_sql returns for statement i on an instance nothing was run on
Alone(i) == analyze_sql(NewInstance, i)

LastIsSql == call.op = "analyze_sql"
LastIsBatch == call.op = "analyze_multiple_queries"
LastParsed == LastIsSql /\ Statements[call.stmt].parses
LastFailed == LastIsSql /\ ~Statements[call.stmt].parses

Range(seq) == {seq[i] : i \in 1..Len(seq)}

\* the list without the entries whose key occurs earlier in it
KeepFirstOfKey(list) ==
    LET kept(i) == \A j \in 1..(i - 1) : RelKey(list[j]) # RelKey(list[i]) IN
    SelectSeq([i \in 1..Len(list) |-> [at |-> i, rel |-> list[i]]],
              LAMBDA x : kept(x.at))

RelsOf(marked) == [i \in 1..Len(marked) |-> marked[i].rel]

\* the results of the statements of a batch, each analyzed alone, in order
RECURSIVE ResultsAlone(_)
ResultsAlone(queries) ==
    IF queries = <<>> THEN <<>>
    ELSE Alone(Head(queries)).ret \o ResultsAlone(Tail(queries))

\* a batch without its entry at position k
Without(queries, k) ==
    [i \in 1..(Len(queries) - 1) |-> IF i < k THEN queries[i] ELSE queries[i + 1]]

\* the relationships of a list whose two sides are both non-null
TwoSided(list) == {r \in Range(list) : r.table1 # None /\ r.table2 # None}

TablesIn(list) == UNION {{r.table1, r.table2} : r \in TwoSided(list)}

PairsIn(list) == {<<r.table1, r.table2>> : r \in TwoSided(list)}

-----------------------------------------------------------------------------
(* C1: the list analyze_multiple_queries returns never holds two            *)
(* relationships with the same (table1, column1, table2, column2), for     *)
(* every batch, with repeated and with unparseable statements.             *)
C1_NoDuplicateKeys ==
    LastIsBatch =>
        \A i, j \in 1..Len(result) :
            RelKey(result[i]) = RelKey(result[j]) => i = j

\* a batch that analyzes the same parseable statement twice
C1_Witness ==
    /\ LastIsBatch
    /\ Len(call.batch) = 2
    /\ call.batch[1] = call.batch[2]
    /\ Statements[call.batch[1]].parses
    /\ result # <<>>

C3_StateDerivedFromList ==
    LastIsBatch =>
        /\ relationships = result
        /\ tables = TablesIn(result)
        /\ DOMAIN graph.edges = PairsIn(result)

(* C4: analyze_sql on a statement the parser rejects returns the empty list *)
(* and leaves relationships, tables, alias map and graph as they were.     *)
C4_ParseFailureKeepsState ==
    [][(call'.op = "analyze_sql" /\ ~Statements[call'.stmt].parses
        /\ ncalls' = ncalls + 1) =>
            /\ result' = <<>>
            /\ UNCHANGED <<relationships, tables, alias_to_table, graph>>]_vars

\* a failed call on an instance that holds the results of an earlier call
C4_Witness ==
    /\ LastFailed
    /\ result = <<>>
    /\ relationships # <<>>
    /\ tables # {}
    /\ DOMAIN alias_to_table # {}

(* C5: a batch with exactly one unparseable statement, wherever it stands,  *)
(* returns the results of the other statements, concatenated in order and  *)
(* deduplicated by key.                                                     *)
FailingAt(queries) == {k \in 1..Len(queries) : ~Statements[queries[k]].parses}

C5_FailureContributesNothing ==
    (LastIsBatch /\ Cardinality(FailingAt(call.batch)) = 1) =>
        \A k \in FailingAt(call.batch) :
            result = RelsOf(KeepFirstOfKey(ResultsAlone(Without(call.batch, k))))

\* the unparseable statement stands first and the others still contribute
C5_Witness ==
    /\ LastIsBatch
    /\ Len(call.batch) >= 2
    /\ FailingAt(call.batch) = {1}
    /\ result # <<>>

-----------------------------------------------------------------------------
(* Vocabulary of the properties about one statement.                        *)

LastTree == Statements[call.stmt].tree

\* the table a qualifier stands for under the alias map d
Resolve(d, qualifier) ==
    IF qualifier \in DOMAIN d THEN d[qualifier] ELSE qualifier

\* an equality of two qualified columns of two different resolved tables
IsPair(d, e) ==
    /\ e.kind = "EQ"
    /\ e.kids[1].kind = "Column"
    /\ e.kids[2].kind = "Column"
    /\ e.kids[1].table # ""
    /\ e.kids[2].table # ""
    /\ Resolve(d, e.kids[1].table) # Resolve(d, e.kids[2].table)

\* the relationship an equality of two qualified columns stands for
RelOfEq(d, e) ==
    Relationship(Resolve(d, e.kids[1].table), e.kids[1].col,
                 Resolve(d, e.kids[2].table), e.kids[2].col)

\* a predicate made of such equalities with AND (and parentheses) only
RECURSIVE IsConjunction(_, _)
IsConjunction(d, e) ==
    IF e.kind = "And" THEN IsConjunction(d, e.kids[1]) /\ IsConjunction(d, e.kids[2])
    ELSE IF e.kind = "Paren" THEN IsConjunction(d, e.kids[1])
    ELSE IsPair(d, e)

\* its equalities from left to right
RECURSIVE Conjuncts(_)
Conjuncts(e) ==
    IF e.kind = "And" THEN Conjuncts(e.kids[1]) \o Conjuncts(e.kids[2])
    ELSE IF e.kind = "Paren" THEN Conjuncts(e.kids[1])
    ELSE <<e>>

\* the nodes of a tree, and its joins, with their positions
NodesOf(tree) == Range(Bfs(<<At(<<>>, tree)>>))
JoinNodes(tree) == {x \in NodesOf(tree) : x.n.kind = "Join"}

\* the tree has FROM a table, one join of a table with ON, and nothing nested
IsSingleOnJoin(tree) ==
    /\ Cardinality(JoinNodes(tree)) = 1
    /\ \A x \in NodesOf(tree) : x.n.kind \notin {"Subquery", "Where"}
    /\ \A x \in JoinNodes(tree) : HasOn(x.n)

\* the equalities that lie inside an OR or a NOT of some join's ON predicate
OrNotEqualities(tree) ==
    UNION {UNION {{y.n : y \in Range(FindAll(x, {"EQ"}))} :
                  x \in Range(FindAll(At(j.p \o <<2>>, j.n.kids[2]), {"Or", "Not"}))} :
           j \in {k \in JoinNodes(tree) : HasOn(k.n)}}

\* no join of the tree has USING or is NATURAL
OnlyEqualitySources(tree) ==
    \A j \in JoinNodes(tree) : j.n.using = <<>> /\ j.n.jkind # "NATURAL"

\* the relationships of all equalities of the tree that are pairs
PairRelationships(d, tree) ==
    {RelOfEq(d, x.n) : x \in {y \in NodesOf(tree) : IsPair(d, y.n)}}

-----------------------------------------------------------------------------
(* C6: a statement FROM t JOIN u ON p, where p is a conjunction (AND,       *)
(* nested to any depth) of k different equalities, each between qualified *)
(* columns of two different resolved tables, yields the k relationships of *)
(* these equalities and nothing else, in left-to-right order.              *)
C6_ConjunctionYieldsEach ==
    LastParsed =>
        \A j \in JoinNodes(LastTree) :
            LET on == Conjuncts(j.n.kids[2])
                expected == [i \in 1..Len(on) |-> RelOfEq(alias_to_table, on[i])]
            IN  (/\ IsSingleOnJoin(LastTree)
                 /\ IsConjunction(alias_to_table, j.n.kids[2])
                 /\ Cardinality(Range(expected)) = Len(expected))
                => result = expected

\* three equalities, the last two inside a parenthesized AND
C6_Witness ==
    /\ LastParsed
    /\ Statements[call.stmt] = StOnAndParen
    /\ Len(result) = 3

(* C7: no relationship is emitted from an equality that lies inside an OR   *)
(* or a NOT of a JOIN ON predicate, in every statement the join appears in. *)
C7_NothingFromOrNot ==
    LastParsed =>
        \A e \in OrNotEqualities(LastTree) :
            IsPair(alias_to_table, e) =>
                RelOfEq(alias_to_table, e) \notin Range(result)

(* C8: every relationship a statement without USING and NATURAL joins       *)
(* yields is the relationship of one of its equalities whose two sides are *)
(* qualified columns resolving to two different non-empty tables; a        *)
(* self-join, an unqualified column and a literal side yield none.         *)
C8_OnlyFromPairs ==
    (LastParsed /\ OnlyEqualitySources(LastTree)) =>
        /\ Range(result) \subseteq PairRelationships(alias_to_table, LastTree)
        /\ \A r \in Range(result) :
               Truthy(r.table1) /\ Truthy(r.table2) /\ r.table1 # r.table2

\* the self-join, whose equality is between two aliases of one table
C8_Witness ==
    /\ LastParsed
    /\ Statements[call.stmt] = StSelfJoin
    /\ alias_to_table["t2"] = "t"
    /\ result = <<>>

-----------------------------------------------------------------------------
\* the node at a position of the tree
RECURSIVE NodeAt(_, _)
NodeAt(tree, p) == IF p = <<>> THEN tree ELSE NodeAt(tree.kids[Head(p)], Tail(p))

\* the FROM target of the statement that holds the join at position p: its
\* table name, or the placeholder when it is not a table
FromTargetOf(tree, p) ==
    LET holder == NodeAt(tree, SubSeq(p, 1, Len(p) - 1))
        froms == SelectSeq(holder.kids, LAMBDA k : k.kind = "From")
    IN  IF froms # <<>> /\ froms[1].kids[1].name # ""
        THEN froms[1].kids[1].name
        ELSE "LEFT_TABLE"

UsingJoins(tree) == {j \in JoinNodes(tree) : ~HasOn(j.n) /\ j.n.using # <<>>}

\* one relationship per USING join and listed column
UsingRelationships(tree) ==
    UNION {{Relationship(FromTargetOf(tree, j.p), c, j.n.kids[1].name, c) :
                c \in Range(j.n.using)} :
           j \in UsingJoins(tree)}

UsingColumns(tree) == UNION {Range(j.n.using) : j \in UsingJoins(tree)}

NaturalJoins(tree) ==
    {j \in JoinNodes(tree) : ~HasOn(j.n) /\ j.n.using = <<>> /\ j.n.jkind = "NATURAL"}

\* the placeholder relationship of a NATURAL join of table t
NaturalPlaceholder(t) ==
    [table1 |-> None, column1 |-> c_NATURAL, column_definition1 |-> "UNKNOWN",
     table2 |-> t, column2 |-> c_NATURAL, column_definition2 |-> "UNKNOWN"]

(* C9: the relationships a statement yields for its USING joins are exactly *)
(* one per join and listed column, with the column on both sides, table1   *)
(* the FROM target of the statement that contains the join (or LEFT_TABLE) *)
(* and table2 the joined table, also for a USING join inside a subquery.   *)
C9_UsingOnePerColumn ==
    LastParsed =>
        LET yielded == {i \in 1..Len(result) :
                            /\ result[i].column1 = result[i].column2
                            /\ result[i].column1 \in UsingColumns(LastTree)}
        IN  /\ {result[i] : i \in yielded} = UsingRelationships(LastTree)
            /\ Cardinality(yielded) = Cardinality(UsingRelationships(LastTree))

-----------------------------------------------------------------------------
\* the FROM list is comma-separated: a table, then joins of tables that have
\* no ON, no USING and no NATURAL mark
IsCommaFrom(tree) ==
    LET froms == SelectSeq(tree.kids, LAMBDA k : k.kind = "From")
        joins == JoinsOf(tree)
    IN  /\ froms # <<>>
        /\ froms[1].kids[1].kind = "Table"
        /\ joins # <<>>
        /\ \A i \in 1..Len(joins) :
               /\ ~HasOn(joins[i])
               /\ joins[i].using = <<>>
               /\ joins[i].jkind # "NATURAL"
               /\ joins[i].kids[1].kind = "Table"

\* the predicates of the statement's WHERE clause, at every depth
WherePredicates(tree) ==
    UNION {NodesOf(w.kids[1]) : w \in Range(SelectSeq(tree.kids, LAMBDA k : k.kind = "Where"))}

(* C11: for a comma-separated FROM list the statement yields one            *)
(* relationship for each different WHERE equality between two qualified    *)
(* columns of two different resolved tables and none for any other         *)
(* predicate; FROM a, b WHERE a.id = b.a_id yields exactly (a,id,b,a_id),  *)
(* and so does the same statement with AND a.status = 'x' added.           *)
C11_CommaWhereEqualities ==
    (LastParsed /\ IsCommaFrom(LastTree)) =>
        LET pairs == {RelOfEq(alias_to_table, x.n) :
                        x \in {y \in WherePredicates(LastTree) :
                                    IsPair(alias_to_table, y.n)}}
        IN  /\ Range(result) = pairs
            /\ Len(result) = Cardinality(pairs)
            /\ Statements[call.stmt] \in {StComma, StComma1} =>
                   result = <<Relationship("a", c_id, "b", c_a_id)>>

\* the statement with the added a.status = 'x' analyzed: one relationship
C11_Witness ==
    /\ LastParsed
    /\ Statements[call.stmt] = StComma
    /\ IsCommaFrom(LastTree)
    /\ Len(result) = 1
    /\ result[1].table1 = "a"
    /\ result[1].column2 = c_a_id

-----------------------------------------------------------------------------
\* p is a proper prefix of q: the node at q lies below the node at p
Below(p, q) == Len(p) < Len(q) /\ SubSeq(q, 1, Len(p)) = p

\* the joins with ON whose target is a derived table
DerivedJoins(tree) ==
    {j \in JoinNodes(tree) : HasOn(j.n) /\ j.n.kids[1].kind = "Subquery"}

\* the joins with ON that lie inside the derived table of the join j
InnerOnJoins(tree, j) ==
    {k \in JoinNodes(tree) : HasOn(k.n) /\ Below(j.p \o <<1>>, k.p)}

\* the relationships of the equalities of a join's ON conjunction
OnRelationships(d, j) ==
    {RelOfEq(d, e) : e \in Range(Conjuncts(j.n.kids[2]))}

(* C12: when a JOIN target is a derived table that holds a JOIN ... ON of   *)
(* its own, the one flat list analyze_sql returns holds the relationship   *)
(* of the outer ON condition and the relationship of the inner ON          *)
(* condition, at every depth of nesting.                                   *)
C12_OuterAndInnerJoins ==
    LastParsed =>
        /\ \A j \in DerivedJoins(LastTree) :
               \A k \in {j} \cup InnerOnJoins(LastTree, j) :
                   IsConjunction(alias_to_table, k.n.kids[2]) =>
                       OnRelationships(alias_to_table, k) \subseteq Range(result)
        /\ Statements[call.stmt] = StDerived1 =>
               result = <<Relationship("users", c_user_id, "post_stats", c_user_id),
                          Relationship("posts", c_category_id,
                                       "categories", c_category_id)>>
        /\ Statements[call.stmt] = StDerived2 =>
               result = <<Relationship("a", c_x, "s", c_y),
                          Relationship("b", c_z, "t", c_w),
                          Relationship("c", c_k, "d", c_k)>>

\* a derived table inside a derived table: three joins, three relationships
C12_Witness ==
    /\ LastParsed
    /\ Statements[call.stmt] = StDerived2
    /\ \E j \in DerivedJoins(LastTree) :
           \E k \in InnerOnJoins(LastTree, j) : k \in DerivedJoins(LastTree)
    /\ Len(result) = 3

-----------------------------------------------------------------------------
\* the aliases the statement gives to tables, at every depth
TableAliases(tree) ==
    {t.n.alias : t \in {x \in NodesOf(tree) : x.n.kind = "Table" /\ x.n.alias # ""}}

\* the real names of the tables the statement refers to
RealTables(tree) == {t.n.name : t \in {x \in NodesOf(tree) : x.n.kind = "Table"}}

\* r names, for the equality e, the table the alias map gives for each
\* qualifier that has an entry in the map
NamesMappedTables(d, r, e) ==
    /\ e.kind = "EQ"
    /\ e.kids[1].kind = "Column"
    /\ e.kids[2].kind = "Column"
    /\ r.column1 = e.kids[1].col
    /\ r.column2 = e.kids[2].col
    /\ IF e.kids[1].table \in DOMAIN d THEN r.table1 = d[e.kids[1].table]
       ELSE r.table1 = e.kids[1].table
    /\ IF e.kids[2].table \in DOMAIN d THEN r.table2 = d[e.kids[2].table]
       ELSE r.table2 = e.kids[2].table

-----------------------------------------------------------------------------
(* _infer_column_type on its own: a second state machine over the same     *)
(* variables.  call holds the argument, result the value returned, and     *)
(* ncalls tells whether the call was made.                                 *)

NamePrefixes == {<<>>, <<"i", "s", "_">>}

NameStems ==
    {<<>>, <<"i", "d">>, <<"u", "s", "e", "r">>,
     <<"c", "r", "e", "a", "t", "e", "d">>}

NameSuffixes ==
    {<<>>, <<"_", "i", "d">>, <<"_", "a", "t">>, <<"_", "t", "i", "m", "e">>,
     <<"_", "d", "a", "t", "e">>, <<"_", "c", "o", "u", "n", "t">>,
     <<"_", "n", "u", "m">>, <<"_", "f", "l", "a", "g">>}

\* the column names given to _infer_column_type
ColumnNames ==
    {p \o m \o x : p \in NamePrefixes, m \in NameStems, x \in NameSuffixes}
    \cup {c_NATURAL}

c_is_user_id == <<"i", "s", "_", "u", "s", "e", "r", "_", "i", "d">>
c_is_created_at ==
    <<"i", "s", "_", "c", "r", "e", "a", "t", "e", "d", "_", "a", "t">>

InitInfer ==
    /\ relationships = <<>>
    /\ tables = {}
    /\ graph = EmptyGraph
    /\ alias_to_table = EmptyDict
    /\ result = None
    /\ \E column_name \in ColumnNames :
           call = [op |-> "_infer_column_type", column_name |-> column_name]
    /\ ncalls = 0

InferColumnType ==
    /\ ncalls = 0
    /\ result' = _infer_column_type(call.column_name)
    /\ ncalls' = 1
    /\ UNCHANGED <<relationships, tables, graph, alias_to_table, call>>

NextInfer == InferColumnType

SpecInfer == InitInfer /\ [][NextInfer]_vars

\* the rules as the ordered list of (condition, label) pairs
InferRules(name) ==
    <<[applies |-> name = <<>> \/ name = <<"N", "A", "T", "U", "R", "A", "L">>,
       label |-> "UNKNOWN"],
      [applies |-> name = <<"i", "d">>, label |-> "INT PRIMARY KEY"],
      [applies |-> EndsWith(name, <<"_", "i", "d">>), label |-> "INT FOREIGN KEY"],
      [applies |-> \/ EndsWith(name, <<"_", "a", "t">>)
                   \/ EndsWith(name, <<"_", "t", "i", "m", "e">>),
       label |-> "DATETIME"],
      [applies |-> EndsWith(name, <<"_", "d", "a", "t", "e">>), label |-> "DATE"],
      [applies |-> \/ EndsWith(name, <<"_", "c", "o", "u", "n", "t">>)
                   \/ EndsWith(name, <<"_", "n", "u", "m">>),
       label |-> "INT"],
      [applies |-> \/ EndsWith(name, <<"_", "f", "l", "a", "g">>)
                   \/ StartsWith(name, <<"i", "s", "_">>),
       label |-> "BOOLEAN"],
      [applies |-> TRUE, label |-> "VARCHAR(255)"]>>

\* the label of the first rule that applies
FirstMatch(name) ==
    LET rules == InferRules(name)
        first == CHOOSE i \in 1..Len(rules) :
                     rules[i].applies /\ \A j \in 1..(i - 1) : ~rules[j].applies
    IN  rules[first].label

(* C14: _infer_column_type returns, for every column name, the label of     *)
(* the first rule that applies, in the order: empty or "NATURAL" UNKNOWN;  *)
(* "id" INT PRIMARY KEY; suffix "_id" INT FOREIGN KEY; suffix "_at" or     *)
(* "_time" DATETIME; suffix "_date" DATE; suffix "_count" or "_num" INT;   *)
(* suffix "_flag" or prefix "is_" BOOLEAN; otherwise VARCHAR(255).  The    *)
(* call changes nothing of the instance, and where two rules apply the     *)
(* earlier one decides: "is_user_id" is INT FOREIGN KEY and                *)
(* "is_created_at" is DATETIME.                                            *)
C14_FirstMatchingRule ==
    ncalls = 1 =>
        /\ result = FirstMatch(call.column_name)
        /\ Self = NewInstance
        /\ call.column_name = c_is_user_id => result = "INT FOREIGN KEY"
        /\ call.column_name = c_is_created_at => result = "DATETIME"

\* a name to which both the "_id" rule and the "is_" rule apply
C14_Witness ==
    /\ ncalls = 1
    /\ call.column_name = c_is_user_id
    /\ InferRules(call.column_name)[3].applies
    /\ InferRules(call.column_name)[7].applies
    /\ result = "INT FOREIGN KEY"

-----------------------------------------------------------------------------
(* C15: analyze_sql of a statement returns the same list, in the same       *)
(* order, on a new instance and on an instance on which any sequence of    *)
(* analyze_sql and analyze_multiple_queries calls has run before.          *)
C15_IndependentOfHistory ==
    LastIsSql => result = Alone(call.stmt).ret

\* an analyze_sql after a batch that left other relationships in the graph
C15_Witness ==
    /\ LastParsed
    /\ ~call.sqlOnly
    /\ ncalls = 2
    /\ result # <<>>
    /\ \E e \in DOMAIN graph.edges : e \notin PairsIn(result)

-----------------------------------------------------------------------------
(* The store on its own: a third state machine over the same variables,    *)
(* whose steps are single _add_relationship calls on one instance.  call   *)
(* holds the arguments of the last call; _add_relationship returns None.   *)

\* the arguments the calls are made with
StoreLeftTables == {"a", None}
StoreRightTables == {"b", "c"}
StoreColumns == {<<c_x, c_y>>, <<c_z, c_w>>, <<c_id, c_id>>, <<c_user_id, c_id>>}

InitStore ==
    /\ relationships = <<>>
    /\ tables = {}
    /\ graph = EmptyGraph
    /\ alias_to_table = EmptyDict
    /\ result = None
    /\ call = [op |-> "init", table1 |-> None, col1 |-> <<>>,
                table2 |-> None, col2 |-> <<>>]
    /\ ncalls = 0

AddRelationship(table1, col1, table2, col2) ==
    /\ ncalls < MaxAdds
    /\ LET after == _add_relationship(Self, table1, col1, table2, col2) IN
           /\ relationships' = after.relationships
           /\ tables' = after.tables
           /\ graph' = after.graph
           /\ alias_to_table' = after.alias_to_table
    /\ result' = None
    /\ call' = [op |-> "_add_relationship", table1 |-> table1, col1 |-> col1,
                 table2 |-> table2, col2 |-> col2]
    /\ ncalls' = ncalls + 1

NextStore ==
    \E table1 \in StoreLeftTables, table2 \in StoreRightTables,
       columns \in StoreColumns :
        AddRelationship(table1, columns[1], table2, columns[2])

SpecStore == InitStore /\ [][NextStore]_vars

\* the label on the edge of a relationship
LabelOf(g, r) == g.edges[<<r.table1, r.table2>>]

(* C16: adding to an edge a column pair that is already recorded on it is   *)
(* idempotent: in every state of the store, whatever label an edge has     *)
(* (one pair or several joined by "; "), a further _add_relationship with  *)
(* a recorded (table1, col1, table2, col2) leaves the edge's label as it   *)
(* is.                                                                      *)
C16_LabelAddIdempotent ==
    \A r \in TwoSided(relationships) :
        LabelOf(_add_relationship(Self, r.table1, r.column1,
                                  r.table2, r.column2).graph, r)
            = LabelOf(graph, r)

-----------------------------------------------------------------------------
(* C17: analyze_multiple_queries returns the concatenation, in input        *)
(* order, of what analyze_sql returns for each statement, without every    *)
(* later occurrence of a (table1, column1, table2, column2) seen before:   *)
(* the record kept for a key is the first one, type annotations included,  *)
(* in first-seen order over the whole batch.                               *)
C17_BatchIsConcatenationKeepFirst ==
    LastIsBatch => result = RelsOf(KeepFirstOfKey(ResultsAlone(call.batch)))

\* two different statements, the second repeating a key of the first
C17_Witness ==
    /\ LastIsBatch
    /\ Len(call.batch) = 2
    /\ call.batch[1] # call.batch[2]
    /\ Len(Alone(call.batch[1]).ret) = 2
    /\ Len(Alone(call.batch[2]).ret) = 1
    /\ Alone(call.batch[2]).ret[1] = Alone(call.batch[1]).ret[1]
    /\ result = Alone(call.batch[1]).ret

-----------------------------------------------------------------------------
(* analyze_sql called from two threads: a fourth state machine over the    *)
(* same variables.  Here relationships, tables, graph and alias_to_table   *)
(* hold the fields of each analyzer instance (indexed by instance), call   *)
(* holds for each thread its instance, statement and position inside       *)
(* analyze_sql, result the list each thread's call returned (its content   *)
(* at the return), and ncalls counts the calls begun.  A thread can be     *)
(* preempted between any two statements of analyze_sql and between any two *)
(* _add_relationship calls of the walk; the statements are those of the    *)
(* batch pool, in which every call site of the walk exists under every     *)
(* alias dict, so the k-th call is resolved with the dict of its moment.   *)

Threads == 1..2
Instances == 1..2

InstanceOf(n) ==
    Instance(relationships[n], tables[n], graph[n], alias_to_table[n])

\* the fields of instance n become those of self
Becomes(n, self) ==
    /\ relationships' = [relationships EXCEPT ![n] = self.relationships]
    /\ tables' = [tables EXCEPT ![n] = self.tables]
    /\ graph' = [graph EXCEPT ![n] = self.graph]
    /\ alias_to_table' = [alias_to_table EXCEPT ![n] = self.alias_to_table]

Running(t) == call[t].pc \in {"reset", "aliases", "walk"}

\* lines 24-26 with no reset of the list
reset_state_KeepsList(self) ==
    Instance(self.relationships, {}, self.graph, EmptyDict)

\* lines 24-26 of analyze_sql
reset_state(self) == Instance(<<>>, {}, self.graph, EmptyDict)

\* line 29 of analyze_sql: the entries are written into self.alias_to_table
extract_aliases(self, tree) ==
    Instance(self.relationships, self.tables, self.graph,
             _extract_table_aliases(self.alias_to_table, At(<<>>, tree), {}).d)

\* lines 32-33 of analyze_sql: the _add_relationship calls under the dict d
CallsOf(d, tree) ==
    _extract_joins(d, At(<<>>, tree), {}).calls
    \o _extract_from_where_relationships(d, At(<<>>, tree))

InitThreads ==
    /\ relationships = [n \in Instances |-> <<>>]
    /\ tables = [n \in Instances |-> {}]
    /\ graph = [n \in Instances |-> EmptyGraph]
    /\ alias_to_table = [n \in Instances |-> EmptyDict]
    /\ result = [t \in Threads |-> <<>>]
    /\ \E n \in Instances :
           call = [t \in Threads |->
                      [pc |-> "idle", inst |-> IF t = 1 THEN 1 ELSE n,
                       stmt |-> 0, k |-> 0, overlapped |-> FALSE]]
    /\ ncalls = 0

\* thread t enters analyze_sql(Statements[i]); parse_one raises or not
Enter(t, i) ==
    /\ call[t].pc = "idle"
    /\ LET overlaps == \E u \in Threads \ {t} : Running(u) IN
           call' = [u \in Threads |->
                       IF u = t
                       THEN [call[t] EXCEPT
                                !.pc = IF Statements[i].parses
                                       THEN "reset" ELSE "done",
                                !.stmt = i, !.overlapped = overlaps]
                       ELSE IF Running(u) /\ Statements[i].parses
                       THEN [call[u] EXCEPT !.overlapped = TRUE]
                       ELSE call[u]]
    /\ ncalls' = ncalls + 1
    /\ UNCHANGED <<relationships, tables, graph, alias_to_table, result>>

Reset(t) ==
    /\ call[t].pc = "reset"
    /\ Becomes(call[t].inst, reset_state(InstanceOf(call[t].inst)))
    /\ call' = [call EXCEPT ![t].pc = "aliases"]
    /\ UNCHANGED <<result, ncalls>>

ExtractAliases(t) ==
    /\ call[t].pc = "aliases"
    /\ Becomes(call[t].inst,
               extract_aliases(InstanceOf(call[t].inst),
                               Statements[call[t].stmt].tree))
    /\ call' = [call EXCEPT ![t].pc = "walk", ![t].k = 1]
    /\ UNCHANGED <<result, ncalls>>

\* the next _add_relationship call of thread t's walk
Add(t) ==
    /\ call[t].pc = "walk"
    /\ LET self == InstanceOf(call[t].inst)
           calls == CallsOf(self.alias_to_table, Statements[call[t].stmt].tree)
           c == calls[call[t].k]
       IN  /\ call[t].k <= Len(calls)
           /\ Becomes(call[t].inst,
                      _add_relationship(self, c.table1, c.col1, c.table2, c.col2))
    /\ call' = [call EXCEPT ![t].k = @ + 1]
    /\ UNCHANGED <<result, ncalls>>

\* line 35: return self.relationships
Return(t) ==
    /\ call[t].pc = "walk"
    /\ call[t].k > Len(CallsOf(alias_to_table[call[t].inst],
                               Statements[call[t].stmt].tree))
    /\ result' = [result EXCEPT ![t] = relationships[call[t].inst]]
    /\ call' = [call EXCEPT ![t].pc = "done"]
    /\ UNCHANGED <<relationships, tables, graph, alias_to_table, ncalls>>

NextThreads ==
    \/ \E t \in Threads, i \in BatchPool : Enter(t, i)
    \/ \E t \in Threads : Reset(t)
    \/ \E t \in Threads : ExtractAliases(t)
    \/ \E t \in Threads : Add(t)
    \/ \E t \in Threads : Return(t)

SpecThreads == InitThreads /\ [][NextThreads]_vars

\* the two threads call analyze_sql on one instance
Shared == call[1].inst = call[2].inst

Returned(t) == call[t].pc = "done"

(* C18: two analyze_sql calls that are serialized, or that run on separate  *)
(* instances, each return the list the call returns alone; two calls that  *)
(* overlap on one shared instance are not safe: there is an interleaving   *)
(* in which a call returns a different list.                               *)
C18_SerializedOrSeparateIsSequential ==
    \A t \in Threads :
        (Returned(t) /\ (~Shared \/ ~call[t].overlapped)) =>
            result[t] = Alone(call[t].stmt).ret

\* the unsafe interleaving: overlapping calls on a shared instance, one of
\* which has returned a list that is not its own
C18_Witness ==
    /\ Shared
    /\ \E t \in Threads :
           /\ Returned(t)
           /\ call[t].overlapped
           /\ Statements[call[t].stmt].parses
           /\ result[t] # Alone(call[t].stmt).ret

-----------------------------------------------------------------------------
\* no two entries of the list are equal
NoTwoEqual(list) == \A i, j \in 1..Len(list) : list[i] = list[j] => i = j

\* how many times the walk of the last statement calls _add_relationship
\* with the arguments of the record r
Visits(r) ==
    LET calls == Walks[call.stmt].calls IN
    Cardinality({k \in 1..Len(calls) :
        Relationship(calls[k].table1, calls[k].col1,
                     calls[k].table2, calls[k].col2) = r})

(* C19: the list built during one analyze_sql call never holds two          *)
(* relationships equal in all six fields, although the walk reaches every  *)
(* join more than once (node.joins, the find_all search, the recursion     *)
(* into each enclosing subquery): a join's records are as many as if it    *)
(* had been visited once.                                                   *)
C19_NoEqualRecords ==
    LastParsed =>
        /\ NoTwoEqual(relationships)
        /\ NoTwoEqual(result)
        /\ \A k \in 0..Len(Walks[call.stmt].calls) :
               NoTwoEqual(AddAll(Instance(<<>>, {}, EmptyGraph, alias_to_table),
                                 SubSeq(Walks[call.stmt].calls, 1, k),
                                 1).relationships)
        /\ \A r \in Range(result) : Visits(r) >= 1

\* the innermost join of a derived table inside a derived table: visited
\* by the search and by the recursion of each level, recorded once
C19_Witness ==
    /\ LastParsed
    /\ Statements[call.stmt] = StDerived2
    /\ \A r \in Range(result) : Visits(r) >= 2
    /\ \E r \in Range(result) : Visits(r) >= 3
    /\ Len(result) = 3

-----------------------------------------------------------------------------
\* the labels "col1 -> col2" of the records of the list between the tables
\* of edge e, each once, in first-seen order, joined by "; "
RECURSIVE Accumulated(_, _)
Accumulated(list, e) ==
    IF list = <<>> THEN <<>>
    ELSE
        LET r == list[Len(list)]
            before == Accumulated(SubSeq(list, 1, Len(list) - 1), e)
        IN  IF <<r.table1, r.table2>> # e THEN before
            ELSE IF before = <<>> THEN EdgeLabel(r.column1, r.column2)
            ELSE before \o <<";", " ">> \o EdgeLabel(r.column1, r.column2)

(* C20: after any sequence of _add_relationship calls the label of each     *)
(* edge (t1, t2) is the accumulation of all the different "col1 -> col2"   *)
(* labels recorded for that pair of tables, each once, joined by "; ": no  *)
(* label once recorded on an edge is lost by a later call.                 *)
C20_LabelAccumulatesAll ==
    /\ DOMAIN graph.edges = PairsIn(relationships)
    /\ \A e \in DOMAIN graph.edges :
           graph.edges[e] = Accumulated(relationships, e)

-----------------------------------------------------------------------------
(* The scoping rules of the walk are checked on statements of their own:   *)
(* the same calls as in the first state machine, on the statements of      *)
(* ScopeStatements.                                                         *)

\* the statements of the batches: a join and the same join the other way round
ScopeBatchPool == FirstIn(Statements, {StOn1, StOnRev})

ScopeBatches == UNION {[1..n -> ScopeBatchPool] : n \in 0..MaxBatch}

NextScope ==
    \/ \E i \in ScopeIds : AnalyzeSql(i)
    \/ \E queries \in ScopeBatches : AnalyzeMultipleQueries(queries)

SpecScope == Init /\ [][NextScope]_vars

\* the nodes that lie in some WHERE clause of the tree, at any depth
UnderWhere(tree) ==
    {x \in NodesOf(tree) :
        \E w \in NodesOf(tree) : w.n.kind = "Where" /\ Below(w.p, x.p)}

\* the nodes that lie in the ON condition of some join of the tree
UnderOn(tree) ==
    {x \in NodesOf(tree) :
        \E j \in JoinNodes(tree) :
            HasOn(j.n) /\ (x.p = j.p \o <<2>> \/ Below(j.p \o <<2>>, x.p))}

PairsAmong(d, nodes) == {RelOfEq(d, x.n) : x \in {y \in nodes : IsPair(d, y.n)}}

\* the relationships that only an equality of a WHERE clause stands for
WhereOnlyRelationships(d, tree) ==
    (PairsAmong(d, UnderWhere(tree) \ UnderOn(tree))
        \ PairsAmong(d, UnderOn(tree)))
    \ UsingRelationships(tree)

\* the FROM and JOIN targets of the statement itself that have a name
ResolvableTables(tree) ==
    SelectSeq(tree.kids,
              LAMBDA k : k.kind \in {"From", "Join"} /\ k.kids[1].name # "")

\* some join of the statement itself has no ON, and more than one of its
\* FROM-side tables has a name
StepTwoApplies(tree) ==
    /\ \E i \in 1..Len(JoinsOf(tree)) : ~HasOn(JoinsOf(tree)[i])
    /\ Len(ResolvableTables(tree)) > 1

(* C21: the WHERE correlation runs only when the statement has a join       *)
(* without ON and more than one resolvable FROM-side table; otherwise no   *)
(* WHERE equality yields a relationship: FROM a JOIN b ON a.x = b.y        *)
(* WHERE a.z = b.w yields (a,x,b,y) alone.                                 *)
C21_WhereScanNeedsJoinWithoutOn ==
    LastParsed =>
        /\ ~StepTwoApplies(LastTree) =>
               WhereOnlyRelationships(alias_to_table, LastTree)
                   \cap Range(result) = {}
        /\ Statements[call.stmt] = StOnWhere =>
               result = <<Relationship("a", c_x, "b", c_y)>>

\* the statement with ON and a WHERE equality of two tables analyzed
C21_Witness ==
    /\ LastParsed
    /\ Statements[call.stmt] = StOnWhere
    /\ ~StepTwoApplies(LastTree)
    /\ Relationship("a", c_z, "b", c_w)
           \in WhereOnlyRelationships(alias_to_table, LastTree)
    /\ Len(result) = 1

-----------------------------------------------------------------------------
\* the SELECT statements that are bodies of subqueries of the tree
SubqueryBodies(tree) ==
    {x \in NodesOf(tree) : x.n.kind = "Select" /\ x.p # <<>>}

(* C22: every subquery goes through the same three steps as the statement   *)
(* itself, so a subquery with a comma-separated FROM list yields the       *)
(* relationships of the equalities of its WHERE clause: JOIN (SELECT ...   *)
(* FROM c, d WHERE c.id = d.c_id) s ON ... yields (c,id,d,c_id).           *)
C22_SubqueryWhereCorrelation ==
    LastParsed =>
        \A q \in SubqueryBodies(LastTree) :
            StepTwoApplies(q.n) =>
                PairsAmong(alias_to_table, WherePredicates(q.n))
                    \subseteq Range(result)

-----------------------------------------------------------------------------
\* the predicates of the statement's own WHERE clause: those of
\* WherePredicates that do not lie in a subquery
OwnWherePredicates(tree) ==
    UNION {{x \in NodesOf(w.kids[1]) :
                \A y \in NodesOf(w.kids[1]) :
                    y.n.kind = "Subquery" => ~(y.p = x.p \/ Below(y.p, x.p))} :
           w \in Range(SelectSeq(tree.kids, LAMBDA k : k.kind = "Where"))}

\* the relationships the JOIN step yields for the statement
JoinStepRelationships(d, tree) ==
    LET calls == _extract_joins(d, At(<<>>, tree), {}).calls IN
    {Relationship(calls[k].table1, calls[k].col1, calls[k].table2, calls[k].col2) :
        k \in 1..Len(calls)}

(* C23: the WHERE correlation yields relationships only from equalities of  *)
(* the analysed statement's own WHERE predicate: whatever the result holds *)
(* beyond the relationships of the JOIN step is the relationship of such   *)
(* an equality, never that of an equality in a nested subquery's WHERE     *)
(* clause or in a nested join's ON condition, also when the statement has  *)
(* no WHERE clause or its WHERE contains a subquery.                       *)
C23_WhereScanOwnPredicateOnly ==
    LastParsed =>
        \A r \in Range(result) :
            \/ r \in JoinStepRelationships(alias_to_table, LastTree)
            \/ r \in PairsAmong(alias_to_table, OwnWherePredicates(LastTree))

-----------------------------------------------------------------------------
HasOwnWhere(tree) == \E i \in 1..Len(tree.kids) : tree.kids[i].kind = "Where"

HasNoWhere(tree) == \A x \in NodesOf(tree) : x.n.kind # "Where"

(* C24: where the WHERE correlation applies it is a flat search: every      *)
(* equality of two qualified columns of different tables anywhere in the   *)
(* WHERE tree yields its relationship, also under OR and under NOT, while  *)
(* in a JOIN ON the same equality under OR yields none.                    *)
C24_WhereScanIsFlat ==
    LastParsed =>
        /\ (StepTwoApplies(LastTree) /\ HasOwnWhere(LastTree)) =>
               PairsAmong(alias_to_table, WherePredicates(LastTree))
                   \subseteq Range(result)
        /\ HasNoWhere(LastTree) =>
               \A e \in OrNotEqualities(LastTree) :
                   IsPair(alias_to_table, e) =>
                       RelOfEq(alias_to_table, e) \notin Range(result)
        /\ Statements[call.stmt] = StCommaOr =>
               result = <<Relationship("a", c_x, "b", c_y),
                          Relationship("a", c_z, "b", c_w)>>
        /\ Statements[call.stmt] = StCommaNot =>
               result = <<Relationship("a", c_x, "b", c_y)>>
        /\ Statements[call.stmt] = StOnOr => result = <<>>

\* the two equalities under OR in the WHERE of a comma-separated FROM list
C24_Witness ==
    /\ LastParsed
    /\ Statements[call.stmt] = StCommaOr
    /\ StepTwoApplies(LastTree)
    /\ LastTree.kids[3].kids[1].kind = "Or"
    /\ Len(result) = 2

-----------------------------------------------------------------------------
\* the table references of the statement, at every depth
TableNodes(tree) == {x.n : x \in {y \in NodesOf(tree) : y.n.kind = "Table"}}

\* the name a table reference is known by: its alias, else its own name
KeyOf(t) == IF t.alias # "" THEN t.alias ELSE t.name

\* the qualifiers the columns of the statement use
Qualifiers(tree) ==
    {x.n.table : x \in {y \in NodesOf(tree) : y.n.kind = "Column" /\ y.n.table # ""}}

-----------------------------------------------------------------------------
(* The walk with an exception.  fault is the position of the one construct *)
(* (an equality, a join, or the body of a subquery) whose processing       *)
(* raises; each operator gives the _add_relationship calls made and        *)
(* whether the exception leaves it, following the try blocks of the code.  *)

Raised(calls) == [calls |-> calls, raised |-> TRUE]
Done(calls) == [calls |-> calls, raised |-> FALSE]

\* the EQ branch (lines 180-194, 297-315) at the node pn
EqualityWithFault(d, pn, fault) ==
    IF pn.p = fault THEN Raised(<<>>) ELSE Done(EqualityCalls(d, pn.n))

\* _extract_equality_conditions (no try block of its own)
RECURSIVE ExtractEqualitiesWithFault(_, _, _)
RECURSIVE ArgsWithFault(_, _, _, _)
ExtractEqualitiesWithFault(d, pn, fault) ==
    IF pn.n.kind = "EQ" THEN EqualityWithFault(d, pn, fault)
    ELSE IF pn.n.kind = "And" THEN
        LET l == ExtractEqualitiesWithFault(d, At(pn.p \o <<1>>, pn.n.kids[1]), fault)
        IN  IF l.raised THEN l
            ELSE
                LET r == ExtractEqualitiesWithFault(
                             d, At(pn.p \o <<2>>, pn.n.kids[2]), fault)
                IN  [calls |-> l.calls \o r.calls, raised |-> r.raised]
    ELSE IF pn.n.kind \in {"Or", "Not"} THEN Done(<<>>)
    ELSE ArgsWithFault(d, pn, 1, fault)

ArgsWithFault(d, pn, i, fault) ==
    IF i > Len(pn.n.kids) THEN Done(<<>>)
    ELSE
        LET first == ExtractEqualitiesWithFault(
                         d, At(pn.p \o <<i>>, pn.n.kids[i]), fault)
        IN  IF first.raised THEN first
            ELSE
                LET rest == ArgsWithFault(d, pn, i + 1, fault) IN
                [calls |-> first.calls \o rest.calls, raised |-> rest.raised]

\* _process_join_condition: its try block ends the exception
ProcessJoinConditionWithFault(d, pn, fault) ==
    ExtractEqualitiesWithFault(d, pn, fault).calls

\* _process_join: its try block ends an exception of the join itself
ProcessJoinWithFault(d, jpn, left_table, fault) ==
    IF jpn.p = fault \/ Len(jpn.n.kids) = 0 THEN <<>>
    ELSE
        LET right_table == _get_table_name(d, jpn.n.kids[1]) IN
        IF HasOn(jpn.n)
        THEN ProcessJoinConditionWithFault(
                 d, At(jpn.p \o <<2>>, jpn.n.kids[2]), fault)
        ELSE IF jpn.n.using # <<>>
        THEN _process_using_clause(jpn.n.using, right_table, left_table)
        ELSE IF jpn.n.jkind = "NATURAL" THEN _process_natural_join(right_table)
        ELSE <<>>

RECURSIVE ProcessJoinsWithFault(_, _, _, _, _)
ProcessJoinsWithFault(d, joins, i, left_table, fault) ==
    IF i > Len(joins) THEN <<>>
    ELSE ProcessJoinWithFault(d, joins[i], left_table, fault)
         \o ProcessJoinsWithFault(d, joins, i + 1, left_table, fault)

\* node.joins with the positions of the joins
HeldJoins(pn) ==
    SelectSeq([j \in 1..Len(pn.n.kids) |-> At(pn.p \o <<j>>, pn.n.kids[j])],
              LAMBDA x : x.n.kind = "Join")

\* _extract_joins: its try block ends an exception of the subquery body
RECURSIVE ExtractJoinsWithFault(_, _, _, _)
RECURSIVE SubqueriesWithFault(_, _, _, _, _)
ExtractJoinsWithFault(d, pn, visited, fault) ==
    IF pn.p \in visited THEN [calls |-> <<>>, visited |-> visited]
    ELSE IF pn.p = fault THEN [calls |-> <<>>, visited |-> visited \cup {pn.p}]
    ELSE
        LET from_clause == Find(pn, {"From"})
            left_table == IF from_clause # <<>>
                          THEN _get_table_name(d, from_clause[1].n.kids[1])
                          ELSE None
            held == ProcessJoinsWithFault(d, HeldJoins(pn), 1, left_table, fault)
            searched == ProcessJoinsWithFault(d, FindAll(pn, {"Join"}), 1,
                                              left_table, fault)
            sub == SubqueriesWithFault(d, FindAll(pn, {"Subquery"}), 1,
                                       visited \cup {pn.p}, fault)
        IN  [calls |-> held \o searched \o sub.calls, visited |-> sub.visited]

SubqueriesWithFault(d, subqueries, i, visited, fault) ==
    IF i > Len(subqueries) THEN [calls |-> <<>>, visited |-> visited]
    ELSE
        LET this == At(subqueries[i].p \o <<1>>, subqueries[i].n.kids[1])
            r == IF this.p \in visited
                 THEN [calls |-> <<>>, visited |-> visited]
                 ELSE ExtractJoinsWithFault(d, this, visited, fault)
            rest == SubqueriesWithFault(d, subqueries, i + 1, r.visited, fault)
        IN  [calls |-> r.calls \o rest.calls, visited |-> rest.visited]

\* the loop of _process_where_conditions, inside one try block
RECURSIVE WhereEqualitiesWithFault(_, _, _, _)
WhereEqualitiesWithFault(d, equalities, i, fault) ==
    IF i > Len(equalities) THEN <<>>
    ELSE
        LET first == EqualityWithFault(d, equalities[i], fault) IN
        IF first.raised THEN <<>>
        ELSE first.calls \o WhereEqualitiesWithFault(d, equalities, i + 1, fault)

ExtractFromWhereWithFault(d, pn, fault) ==
    LET joins == JoinsOf(pn.n)
        from_clause == Find(pn, {"From"})
        main_table == IF from_clause # <<>>
                      THEN _get_table_name(d, from_clause[1].n.kids[1])
                      ELSE None
        from_tables == (IF Truthy(main_table) THEN <<main_table>> ELSE <<>>)
                       \o JoinedTables(d, joins, 1)
        where_clause == Find(pn, {"Where"})
    IN  IF /\ joins # <<>>
           /\ Len(from_tables) > 1
           /\ SelectSeq(joins, LAMBDA j : ~HasOn(j)) # <<>>
           /\ where_clause # <<>>
        THEN WhereEqualitiesWithFault(d, FindAll(where_clause[1], {"EQ"}), 1, fault)
        ELSE <<>>

\* lines 32-33 of analyze_sql with the exception at fault
CallsWithFault(d, tree, fault) ==
    ExtractJoinsWithFault(d, At(<<>>, tree), {}, fault).calls
    \o ExtractFromWhereWithFault(d, At(<<>>, tree), fault)

\* analyze_sql(sql_query) with the exception at fault inside the walk
analyze_sql_with_fault(self, i, fault) ==
    Analyzed(self, [d |-> Walks[i].d,
                    calls |-> CallsWithFault(Walks[i].d, Statements[i].tree,
                                             fault)])

(* A fifth state machine: analyze_sql calls on one instance, each with an  *)
(* exception raised at one equality, join or subquery body of its          *)
(* statement.  call.fault is the position of that construct.               *)

FaultIds == FirstIn(Statements, Range(FaultStatements))

\* the constructs of a statement whose processing can raise
Faults(tree) ==
    {x.p : x \in {y \in NodesOf(tree) :
                     \/ y.n.kind \in {"EQ", "Join"}
                     \/ y.n.kind = "Select" /\ y.p # <<>>}}

InitFaults ==
    /\ relationships = <<>>
    /\ tables = {}
    /\ graph = EmptyGraph
    /\ alias_to_table = EmptyDict
    /\ result = <<>>
    /\ call = [op |-> "init", stmt |-> 0, batch |-> <<>>, sqlOnly |-> TRUE,
                fault |-> <<>>]
    /\ ncalls = 0

AnalyzeSqlWithFault(i, fault) ==
    /\ ncalls < MaxCalls
    /\ Returns(analyze_sql_with_fault(Self, i, fault))
    /\ call' = [op |-> "analyze_sql", stmt |-> i, batch |-> <<>>,
                 sqlOnly |-> TRUE, fault |-> fault]

NextFaults ==
    \E i \in FaultIds :
        \E fault \in Faults(Statements[i].tree) : AnalyzeSqlWithFault(i, fault)

SpecFaults == InitFaults /\ [][NextFaults]_vars

\* p is the position fault or lies below it
InFault(p, fault) == p = fault \/ Below(fault, p)

\* the relationships of the constructs of the statement outside the fault
OutsideFault(d, tree, fault) ==
    PairsAmong(d, {x \in NodesOf(tree) : ~InFault(x.p, fault)})
    \cup UNION {{Relationship(FromTargetOf(tree, j.p), c, j.n.kids[1].name, c) :
                    c \in Range(j.n.using)} :
                j \in {k \in UsingJoins(tree) : ~InFault(k.p, fault)}}

(* C26: an exception raised while one join, one equality or one subquery    *)
(* is processed skips that construct only: every relationship the          *)
(* statement yields without the exception, and that a construct outside    *)
(* the failing one stands for, is in the returned list, the remaining      *)
(* equalities of the same ON or WHERE predicate included.                  *)
C26_OnlyFailingConstructSkipped ==
    LastIsSql =>
        (Range(Alone(call.stmt).ret)
            \cap OutsideFault(alias_to_table, LastTree, call.fault))
        \subseteq Range(result)

\* r and q are the same equality with the sides exchanged
Swapped(r, q) ==
    /\ r.table1 = q.table2 /\ r.column1 = q.column2
    /\ r.table2 = q.table1 /\ r.column2 = q.column1
    /\ r.table1 # r.table2

\* the relationships the statements of the last call yield, each analyzed alone
YieldedByLastCall ==
    IF LastIsSql THEN Range(Alone(call.stmt).ret)
    ELSE IF LastIsBatch
         THEN UNION {Range(Alone(call.batch[k]).ret) : k \in 1..Len(call.batch)}
         ELSE {}

Declarations(tree) == {x \in NodesOf(tree) : x.n.kind = "Table"}

\* the number of subqueries the position p lies in
Level(tree, p) ==
    Cardinality({s \in NodesOf(tree) : s.n.kind = "Subquery" /\ Below(s.p, p)})

\* the real names the references of the subqueries give the key k
SubqueryBindings(tree, k) ==
    {x.n.name : x \in {y \in Declarations(tree) :
                           KeyOf(y.n) = k /\ Level(tree, y.p) > 0}}

\* the key k is declared by the outer statement for one table and inside
\* subqueries for one other table
Redeclared(tree, k) ==
    /\ Cardinality(SubqueryBindings(tree, k)) = 1
    /\ \E x \in Declarations(tree) :
           /\ KeyOf(x.n) = k
           /\ Level(tree, x.p) = 0
           /\ x.n.name \notin SubqueryBindings(tree, k)

\* the columns of a statement qualified by k
ColumnsOf(tree, k) ==
    {x.n : x \in {y \in NodesOf(tree) : y.n.kind = "Column" /\ y.n.table = k}}

\* the real names the JOIN targets of the outer statement give the key k
OuterJoinBindings(tree, k) ==
    {x.n.name : x \in {y \in Declarations(tree) :
                           /\ KeyOf(y.n) = k
                           /\ Level(tree, y.p) = 0
                           /\ NodeAt(tree, SubSeq(y.p, 1, Len(y.p) - 1)).kind
                                  = "Join"}}

(* C28: after analyze_sql of a statement that declares one alias name for   *)
(* one table in the outer statement and for another table inside a         *)
(* subquery, the alias map binds the name to the subquery's table, every   *)
(* column qualified by the name, at any level, resolves to that table, and *)
(* no returned relationship names the outer table, unless another key      *)
(* still stands for it.  A name no subquery declares is bound to the table *)
(* of the outer JOIN target that declares it, whatever the outer FROM      *)
(* declares.                                                               *)
C28_SubqueryBindingOverwrites ==
    LastParsed =>
        \A k \in {KeyOf(x.n) : x \in Declarations(LastTree)} :
            /\ (/\ SubqueryBindings(LastTree, k) = {}
                /\ Cardinality(OuterJoinBindings(LastTree, k)) = 1)
               => {alias_to_table[k]} = OuterJoinBindings(LastTree, k)
            /\ Redeclared(LastTree, k) =>
                /\ {alias_to_table[k]} = SubqueryBindings(LastTree, k)
                /\ \A c \in ColumnsOf(LastTree, k) :
                       {_get_column_table(alias_to_table, c)}
                           = SubqueryBindings(LastTree, k)
                /\ \A x \in Declarations(LastTree) :
                       (/\ KeyOf(x.n) = k
                        /\ Level(LastTree, x.p) = 0
                        /\ \A j \in DOMAIN alias_to_table :
                               alias_to_table[j] # x.n.name)
                       => \A i \in 1..Len(result) :
                              /\ result[i].table1 # x.n.name
                              /\ result[i].table2 # x.n.name

\* a statement binding u to users outside and to posts inside a subquery has
\* been analyzed, and its outer ON equality reports posts
C28_Witness ==
    /\ LastParsed
    /\ Redeclared(LastTree, "u")
    /\ alias_to_table["u"] = "posts"
    /\ \E c \in ColumnsOf(LastTree, "u") : c.col = c_id
    /\ \E i \in 1..Len(result) :
           \/ result[i].table1 = "posts" /\ result[i].column1 = c_id
           \/ result[i].table2 = "posts" /\ result[i].column2 = c_id

\* the entries of label.split("; ")
Entries(label) ==
    LET cuts == {i \in 1..(Len(label) - 1) : SubSeq(label, i, i + 1) = <<";", " ">>}
        starts == {1} \cup {c + 2 : c \in cuts}
        stop(b) == IF \E c \in cuts : c >= b
                   THEN (CHOOSE c \in cuts :
                             c >= b /\ \A e \in cuts : e >= b => c <= e) - 1
                   ELSE Len(label)
    IN  {SubSeq(label, b, stop(b)) : b \in starts}

\* entry reads "col1 -> col2" with two column names
IsEntry(entry) ==
    \E i \in 2..(Len(entry) - 4) :
        SubSeq(entry, i, i + 3) = <<" ", "-", ">", " ">>

\* the relationships of a list with two table names
BothNamed(list) ==
    {r \in Range(list) : Truthy(r.table1) /\ Truthy(r.table2)}

\* the relationships of a list with a null or empty side
NullSided(list) == Range(list) \ BothNamed(list)

\* the table set and the graph are well formed
GraphWellFormed ==
    /\ tables \subseteq graph.nodes
    /\ \A n \in graph.nodes : Truthy(n)
    /\ \A e \in DOMAIN graph.edges :
           /\ e[1] \in graph.nodes /\ e[2] \in graph.nodes
           /\ TruthyStr(graph.edges[e])
           /\ \A entry \in Entries(graph.edges[e]) : IsEntry(entry)

(* C29: every call of analyze_sql or analyze_multiple_queries leaves every *)
(* member of the table set a node of the graph, no node null or empty, and *)
(* every edge with a non-empty label made of "col1 -> col2" entries; the   *)
(* nodes and edges the call adds, and after analyze_sql the members of the *)
(* table set, are those of the returned relationships with two table       *)
(* names, so a relationship with a null or empty side adds none.           *)
C29_GraphAndTablesWellFormed ==
    [][/\ GraphWellFormed'
       /\ (graph'.nodes \ graph.nodes)
              \subseteq UNION {{r.table1, r.table2} : r \in BothNamed(result')}
       /\ ((DOMAIN graph'.edges) \ (DOMAIN graph.edges))
              \subseteq {<<r.table1, r.table2>> : r \in BothNamed(result')}
       /\ (call'.op = "analyze_sql" /\ Statements[call'.stmt].parses)
              => tables' = UNION {{r.table1, r.table2} : r \in BothNamed(result')}
      ]_vars

\* a first call has returned only relationships with a null or empty side,
\* and the graph and the table set are empty
C29_Witness ==
    /\ LastParsed
    /\ NullSided(result) # {}
    /\ BothNamed(result) = {}
    /\ graph = EmptyGraph
    /\ tables = {}

(* C30: after analyze_sql, the relationships of every JOIN ... USING name   *)
(* the real table names of the FROM target and of the JOIN target, and the *)
(* placeholder of every NATURAL JOIN names the real table name of its JOIN *)
(* target, whatever aliases the statement declares.                        *)
C30_TargetsReportedByRealName ==
    LastParsed =>
        /\ UsingRelationships(LastTree) \subseteq Range(result)
        /\ \A j \in NaturalJoins(LastTree) :
               NaturalPlaceholder(j.n.kids[1].name) \in Range(result)

=============================================================================
